---- MODULE Spec2Model ----
(***************************************************************************)
(* A model of src/extract_voters.py: the Malayalam-to-Latin transliterator *)
(* (transliterate_to_english, transliterate_word) and the OCR page parser  *)
(* (parse_ocr_text, parse_voter_block).                                    *)
(*                                                                         *)
(* Text representation.  A Python str is a sequence of Unicode code points *)
(* (naturals): 'ab' is <<97, 98>>, the virama U+0D4D is 3405.  Python's    *)
(* 0-based index k of a list is At(chars, k) here.                         *)
(***************************************************************************)
EXTENDS Integers, Sequences, FiniteSets, TLC

VARIABLES
    \* transliterate_word(word): the word, the cursor i, the list result,
    \* the returned string, and a log of the loop's iterations
    word, i, result, word_ret, scan, wpc,
    \* transliterate_to_english(text): the argument, the list words and the
    \* loop's position in it, the list result_words, the returned string;
    \* round counts the applications, first_in and first_ret keep the first
    \* application's argument and result
    text_in, words, widx, result_words, text_ret, tpc, round, first_in, first_ret,
    \* parse_voter_block(block_text, voter_ids, serial_nums): the arguments
    \* (block_text as its list of lines), the four accumulators, the columns
    \* split out of them (names, rel_names, relation_types, houses, ages,
    \* genders, as the fields of cols), the list voters
    block_text, voter_ids, serial_nums, name_line, relative_line, house_line,
    age_gender_line, cols, voters, bpc,
    \* parse_ocr_text(text): the page as its raw lines, the list lines, start_idx,
    \* the outer loop's index i (pidx), the list voters (page_voters); origins
    \* logs for every record the index of the line that started its block,
    \* blocks logs every block collected
    page, lines, start_idx, pidx, page_voters, origins, blocks, ppc,
    \* main(): the list pdf_files and the loop's position in it, all_voters,
    \* processed_pdfs; extended keeps all_voters as line 619 left it, saves
    \* logs every collection passed to save_data
    pdf_files, pdf_at, all_voters, processed_pdfs, extended, saves, mpc

wordVars == <<word, i, result, word_ret, scan, wpc>>

textVars == <<text_in, words, widx, result_words, text_ret, tpc, round, first_in, first_ret>>

blockVars == <<block_text, voter_ids, serial_nums, name_line, relative_line,
               house_line, age_gender_line, cols, voters, bpc>>

pageVars == <<page, lines, start_idx, pidx, page_voters, origins, blocks, ppc>>

mainVars == <<pdf_files, pdf_at, all_voters, processed_pdfs, extended, saves, mpc>>

vars == <<wordVars, textVars, blockVars, pageVars, mainVars>>

(***************************************************************************)
(* Bounds of the model.                                                    *)
(***************************************************************************)
\* words over the whole alphabet WordAlphabet are at most this long
MaxWordLen == 4
\* words over consonants, virama and a vowel sign only are at most this long
MaxClusterLen == 5
\* ASCII texts given to transliterate_to_english are at most this long
MaxTextLen == 4
\* a field line of a block holds at most this many label-and-value cells
MaxCols == 2
\* a block is parsed for at most this many identifiers
MaxIds == 3
\* a page holds at most this many lines
MaxPageLines == 4
\* main is given at most this many PDFs
MaxPdfs == 2
\* process_pdf returns at most this many records for a PDF
MaxBatch == 2

(***************************************************************************)
(* Code points the code names.                                             *)
(***************************************************************************)
VIRAMA == 3405
ZWJ == 8205
ZWNJ == 8204
\* 'a', the inherent vowel appended at lines 256 and 277
INHERENT_A == 97

(***************************************************************************)
(* The lookup tables, lines 35-153, entry for entry.                       *)
(***************************************************************************)
CONJUNCTS ==
    (<<3349, 3405, 3349>> :> <<107, 107, 97>>) @@   \* U+0D15 U+0D4D U+0D15 -> 'kka'
    (<<3349, 3405, 3383>> :> <<107, 115, 104, 97>>) @@   \* U+0D15 U+0D4D U+0D37 -> 'ksha'
    (<<3349, 3405, 3364>> :> <<107, 116, 104, 97>>) @@   \* U+0D15 U+0D4D U+0D24 -> 'ktha'
    (<<3353, 3405, 3349>> :> <<110, 107, 97>>) @@   \* U+0D19 U+0D4D U+0D15 -> 'nka'
    (<<3353, 3405, 3353>> :> <<110, 103, 97>>) @@   \* U+0D19 U+0D4D U+0D19 -> 'nga'
    (<<3354, 3405, 3354>> :> <<99, 99, 104, 97>>) @@   \* U+0D1A U+0D4D U+0D1A -> 'ccha'
    (<<3358, 3405, 3354>> :> <<110, 99, 104, 97>>) @@   \* U+0D1E U+0D4D U+0D1A -> 'ncha'
    (<<3358, 3405, 3358>> :> <<110, 106, 97>>) @@   \* U+0D1E U+0D4D U+0D1E -> 'nja'
    (<<3359, 3405, 3359>> :> <<116, 116, 97>>) @@   \* U+0D1F U+0D4D U+0D1F -> 'tta'
    (<<3363, 3405, 3359>> :> <<110, 100, 97>>) @@   \* U+0D23 U+0D4D U+0D1F -> 'nda'
    (<<3363, 3405, 3363>> :> <<110, 110, 97>>) @@   \* U+0D23 U+0D4D U+0D23 -> 'nna'
    (<<3364, 3405, 3364>> :> <<116, 116, 104, 97>>) @@   \* U+0D24 U+0D4D U+0D24 -> 'ttha'
    (<<3368, 3405, 3364>> :> <<110, 116, 104, 97>>) @@   \* U+0D28 U+0D4D U+0D24 -> 'ntha'
    (<<3368, 3405, 3368>> :> <<110, 110, 97>>) @@   \* U+0D28 U+0D4D U+0D28 -> 'nna'
    (<<3368, 3405, 3366>> :> <<110, 100, 97>>) @@   \* U+0D28 U+0D4D U+0D26 -> 'nda'
    (<<3368, 3405, 3367>> :> <<110, 100, 104, 97>>) @@   \* U+0D28 U+0D4D U+0D27 -> 'ndha'
    (<<3368, 3405, 3377>> :> <<110, 114, 97>>) @@   \* U+0D28 U+0D4D U+0D31 -> 'nra'
    (<<3370, 3405, 3370>> :> <<112, 112, 97>>) @@   \* U+0D2A U+0D4D U+0D2A -> 'ppa'
    (<<3374, 3405, 3370>> :> <<109, 98, 97>>) @@   \* U+0D2E U+0D4D U+0D2A -> 'mba'
    (<<3374, 3405, 3374>> :> <<109, 109, 97>>) @@   \* U+0D2E U+0D4D U+0D2E -> 'mma'
    (<<3375, 3405, 3375>> :> <<121, 121, 97>>) @@   \* U+0D2F U+0D4D U+0D2F -> 'yya'
    (<<3378, 3405, 3378>> :> <<108, 108, 97>>) @@   \* U+0D32 U+0D4D U+0D32 -> 'lla'
    (<<3379, 3405, 3379>> :> <<108, 108, 97>>) @@   \* U+0D33 U+0D4D U+0D33 -> 'lla'
    (<<3381, 3405, 3381>> :> <<118, 118, 97>>) @@   \* U+0D35 U+0D4D U+0D35 -> 'vva'
    (<<3382, 3405, 3382>> :> <<115, 104, 115, 104, 97>>) @@   \* U+0D36 U+0D4D U+0D36 -> 'shsha'
    (<<3384, 3405, 3384>> :> <<115, 115, 97>>) @@   \* U+0D38 U+0D4D U+0D38 -> 'ssa'
    (<<3377, 3405, 3377>> :> <<116, 116, 97>>) @@   \* U+0D31 U+0D4D U+0D31 -> 'tta'
    (<<3383, 3405, 3359>> :> <<115, 104, 116, 97>>) @@   \* U+0D37 U+0D4D U+0D1F -> 'shta'
    (<<3383, 3405, 3363>> :> <<115, 104, 110, 97>>) @@   \* U+0D37 U+0D4D U+0D23 -> 'shna'
    (<<3384, 3405, 3349>> :> <<115, 107, 97>>) @@   \* U+0D38 U+0D4D U+0D15 -> 'ska'
    (<<3384, 3405, 3364>> :> <<115, 116, 104, 97>>) @@   \* U+0D38 U+0D4D U+0D24 -> 'stha'
    (<<3384, 3405, 3365>> :> <<115, 116, 104, 97>>) @@   \* U+0D38 U+0D4D U+0D25 -> 'stha'
    (<<3384, 3405, 3374>> :> <<115, 109, 97>>) @@   \* U+0D38 U+0D4D U+0D2E -> 'sma'
    (<<3384, 3405, 3368>> :> <<115, 110, 97>>) @@   \* U+0D38 U+0D4D U+0D28 -> 'sna'
    (<<3384, 3405, 3370>> :> <<115, 112, 97>>) @@   \* U+0D38 U+0D4D U+0D2A -> 'spa'
    (<<3384, 3405, 3371>> :> <<115, 112, 104, 97>>) @@   \* U+0D38 U+0D4D U+0D2B -> 'spha'
    (<<3384, 3405, 3376>> :> <<115, 114, 97>>) @@   \* U+0D38 U+0D4D U+0D30 -> 'sra'
    (<<3366, 3405, 3366>> :> <<100, 100, 97>>) @@   \* U+0D26 U+0D4D U+0D26 -> 'dda'
    (<<3366, 3405, 3367>> :> <<100, 100, 104, 97>>) @@   \* U+0D26 U+0D4D U+0D27 -> 'ddha'
    (<<3366, 3405, 3376>> :> <<100, 114, 97>>) @@   \* U+0D26 U+0D4D U+0D30 -> 'dra'
    (<<3372, 3405, 3372>> :> <<98, 98, 97>>) @@   \* U+0D2C U+0D4D U+0D2C -> 'bba'
    (<<3372, 3405, 3366>> :> <<98, 100, 97>>) @@   \* U+0D2C U+0D4D U+0D26 -> 'bda'
    (<<3372, 3405, 3367>> :> <<98, 100, 104, 97>>) @@   \* U+0D2C U+0D4D U+0D27 -> 'bdha'
    (<<3372, 3405, 3376>> :> <<98, 114, 97>>) @@   \* U+0D2C U+0D4D U+0D30 -> 'bra'
    (<<3356, 3405, 3356>> :> <<106, 106, 97>>) @@   \* U+0D1C U+0D4D U+0D1C -> 'jja'
    (<<3356, 3405, 3358>> :> <<103, 110, 97>>) @@   \* U+0D1C U+0D4D U+0D1E -> 'gna'
    (<<3351, 3405, 3351>> :> <<103, 103, 97>>) @@   \* U+0D17 U+0D4D U+0D17 -> 'gga'
    (<<3351, 3405, 3368>> :> <<103, 110, 97>>) @@   \* U+0D17 U+0D4D U+0D28 -> 'gna'
    (<<3351, 3405, 3374>> :> <<103, 109, 97>>) @@   \* U+0D17 U+0D4D U+0D2E -> 'gma'
    (<<3351, 3405, 3376>> :> <<103, 114, 97>>) @@   \* U+0D17 U+0D4D U+0D30 -> 'gra'
    (<<3349, 3405, 3376>> :> <<107, 114, 97>>) @@   \* U+0D15 U+0D4D U+0D30 -> 'kra'
    (<<3349, 3405, 3378>> :> <<107, 108, 97>>) @@   \* U+0D15 U+0D4D U+0D32 -> 'kla'
    (<<3370, 3405, 3376>> :> <<112, 114, 97>>) @@   \* U+0D2A U+0D4D U+0D30 -> 'pra'
    (<<3370, 3405, 3378>> :> <<112, 108, 97>>) @@   \* U+0D2A U+0D4D U+0D32 -> 'pla'
    (<<3364, 3405, 3376>> :> <<116, 104, 114, 97>>) @@   \* U+0D24 U+0D4D U+0D30 -> 'thra'
    (<<3364, 3405, 3374>> :> <<116, 104, 109, 97>>) @@   \* U+0D24 U+0D4D U+0D2E -> 'thma'
    (<<3371, 3405, 3376>> :> <<112, 104, 114, 97>>) @@   \* U+0D2B U+0D4D U+0D30 -> 'phra'
    (<<3382, 3405, 3376>> :> <<115, 104, 114, 97>>) @@   \* U+0D36 U+0D4D U+0D30 -> 'shra'
    (<<3368, 3405, 3366, 3405, 3376>> :> <<110, 100, 114, 97>>)   \* U+0D28 U+0D4D U+0D26 U+0D4D U+0D30 -> 'ndra'

CONSONANTS ==
    (3349 :> <<107>>) @@   \* U+0D15 -> 'k'
    (3350 :> <<107, 104>>) @@   \* U+0D16 -> 'kh'
    (3351 :> <<103>>) @@   \* U+0D17 -> 'g'
    (3352 :> <<103, 104>>) @@   \* U+0D18 -> 'gh'
    (3353 :> <<110, 103>>) @@   \* U+0D19 -> 'ng'
    (3354 :> <<99, 104>>) @@   \* U+0D1A -> 'ch'
    (3355 :> <<99, 104, 104>>) @@   \* U+0D1B -> 'chh'
    (3356 :> <<106>>) @@   \* U+0D1C -> 'j'
    (3357 :> <<106, 104>>) @@   \* U+0D1D -> 'jh'
    (3358 :> <<110, 106>>) @@   \* U+0D1E -> 'nj'
    (3359 :> <<116>>) @@   \* U+0D1F -> 't'
    (3360 :> <<116, 104>>) @@   \* U+0D20 -> 'th'
    (3361 :> <<100>>) @@   \* U+0D21 -> 'd'
    (3362 :> <<100, 104>>) @@   \* U+0D22 -> 'dh'
    (3363 :> <<110>>) @@   \* U+0D23 -> 'n'
    (3364 :> <<116, 104>>) @@   \* U+0D24 -> 'th'
    (3365 :> <<116, 104, 104>>) @@   \* U+0D25 -> 'thh'
    (3366 :> <<100>>) @@   \* U+0D26 -> 'd'
    (3367 :> <<100, 104>>) @@   \* U+0D27 -> 'dh'
    (3368 :> <<110>>) @@   \* U+0D28 -> 'n'
    (3370 :> <<112>>) @@   \* U+0D2A -> 'p'
    (3371 :> <<112, 104>>) @@   \* U+0D2B -> 'ph'
    (3372 :> <<98>>) @@   \* U+0D2C -> 'b'
    (3373 :> <<98, 104>>) @@   \* U+0D2D -> 'bh'
    (3374 :> <<109>>) @@   \* U+0D2E -> 'm'
    (3375 :> <<121>>) @@   \* U+0D2F -> 'y'
    (3376 :> <<114>>) @@   \* U+0D30 -> 'r'
    (3378 :> <<108>>) @@   \* U+0D32 -> 'l'
    (3381 :> <<118>>) @@   \* U+0D35 -> 'v'
    (3382 :> <<115, 104>>) @@   \* U+0D36 -> 'sh'
    (3383 :> <<115, 104>>) @@   \* U+0D37 -> 'sh'
    (3384 :> <<115>>) @@   \* U+0D38 -> 's'
    (3385 :> <<104>>) @@   \* U+0D39 -> 'h'
    (3379 :> <<108>>) @@   \* U+0D33 -> 'l'
    (3380 :> <<122, 104>>) @@   \* U+0D34 -> 'zh'
    (3377 :> <<114>>)   \* U+0D31 -> 'r'

VOWELS ==
    (3333 :> <<97>>) @@   \* U+0D05 -> 'a'
    (3334 :> <<97, 97>>) @@   \* U+0D06 -> 'aa'
    (3335 :> <<105>>) @@   \* U+0D07 -> 'i'
    (3336 :> <<101, 101>>) @@   \* U+0D08 -> 'ee'
    (3337 :> <<117>>) @@   \* U+0D09 -> 'u'
    (3338 :> <<111, 111>>) @@   \* U+0D0A -> 'oo'
    (3339 :> <<114, 105>>) @@   \* U+0D0B -> 'ri'
    (3342 :> <<101>>) @@   \* U+0D0E -> 'e'
    (3343 :> <<101>>) @@   \* U+0D0F -> 'e'
    (3344 :> <<97, 105>>) @@   \* U+0D10 -> 'ai'
    (3346 :> <<111>>) @@   \* U+0D12 -> 'o'
    (3347 :> <<111>>) @@   \* U+0D13 -> 'o'
    (3348 :> <<97, 117>>)   \* U+0D14 -> 'au'

MATRAS ==
    (3390 :> <<97>>) @@   \* U+0D3E -> 'a'
    (3391 :> <<105>>) @@   \* U+0D3F -> 'i'
    (3392 :> <<101, 101>>) @@   \* U+0D40 -> 'ee'
    (3393 :> <<117>>) @@   \* U+0D41 -> 'u'
    (3394 :> <<111, 111>>) @@   \* U+0D42 -> 'oo'
    (3395 :> <<114, 105>>) @@   \* U+0D43 -> 'ri'
    (3398 :> <<101>>) @@   \* U+0D46 -> 'e'
    (3399 :> <<101>>) @@   \* U+0D47 -> 'e'
    (3400 :> <<97, 105>>) @@   \* U+0D48 -> 'ai'
    (3402 :> <<111>>) @@   \* U+0D4A -> 'o'
    (3403 :> <<111>>) @@   \* U+0D4B -> 'o'
    (3404 :> <<97, 117>>) @@   \* U+0D4C -> 'au'
    (3415 :> <<97, 117>>)   \* U+0D57 -> 'au'

SPECIALS ==
    (3330 :> <<109>>) @@   \* U+0D02 -> 'm'
    (3331 :> <<104>>) @@   \* U+0D03 -> 'h'
    (3405 :> <<>>) @@   \* U+0D4D -> ''
    (3451 :> <<110>>) @@   \* U+0D7B -> 'n'
    (3453 :> <<108>>) @@   \* U+0D7D -> 'l'
    (3454 :> <<108>>) @@   \* U+0D7E -> 'l'
    (3452 :> <<114>>) @@   \* U+0D7C -> 'r'
    (3450 :> <<110>>) @@   \* U+0D7A -> 'n'
    (3455 :> <<107>>) @@   \* U+0D7F -> 'k'
    (8205 :> <<>>) @@   \* U+200D -> ''
    (8204 :> <<>>)   \* U+200C -> ''

KNOWN_NAMES == <<
    << <<3333, 3372, 3405, 3366, 3393, 3379, 3405, 3379>>, <<65, 98, 100, 117, 108, 108, 97>> >>,   \* 1: 'Abdulla'
    << <<3333, 3372, 3405, 3366, 3393, 3378, 3405, 8205>>, <<65, 98, 100, 117, 108>> >>,   \* 2: 'Abdul'
    << <<3374, 3393, 3385, 3374, 3405, 3374, 3366, 3405>>, <<77, 117, 104, 97, 109, 109, 101, 100>> >>,   \* 3: 'Muhammed'
    << <<3374, 3393, 3385, 3374, 3405, 3374, 3366, 3405, 8204>>, <<77, 117, 104, 97, 109, 109, 101, 100>> >>,   \* 4: 'Muhammed'
    << <<3374, 3393, 3385, 3374, 3405, 3374, 3398, 3366, 3405>>, <<77, 117, 104, 97, 109, 109, 101, 100>> >>,   \* 5: 'Muhammed'
    << <<3371, 3390, 3364, 3405, 3364, 3391, 3374>>, <<70, 97, 116, 104, 105, 109, 97>> >>,   \* 6: 'Fathima'
    << <<3334, 3375, 3391, 3382>>, <<65, 121, 105, 115, 104, 97>> >>,   \* 7: 'Ayisha'
    << <<3385, 3384, 3451>>, <<72, 97, 115, 97, 110>> >>,   \* 8: 'Hasan'
    << <<3385, 3393, 3384, 3400, 3451>>, <<72, 117, 115, 115, 97, 105, 110>> >>,   \* 9: 'Hussain'
    << <<3335, 3372, 3405, 3376, 3390, 3385, 3391, 3330>>, <<73, 98, 114, 97, 104, 105, 109>> >>,   \* 10: 'Ibrahim'
    << <<3349, 3376, 3392, 3330>>, <<75, 97, 114, 101, 101, 109>> >>,   \* 11: 'Kareem'
    << <<3333, 3385, 3374, 3405, 3374, 3366, 3405>>, <<65, 104, 109, 101, 100>> >>,   \* 12: 'Ahmed'
    << <<3333, 3385, 3374, 3405, 3374, 3366, 3405, 8204>>, <<65, 104, 109, 101, 100>> >>,   \* 13: 'Ahmed'
    << <<3333, 3385, 3374, 3405, 3374, 3398, 3366, 3405>>, <<65, 104, 109, 101, 100>> >>,   \* 14: 'Ahmed'
    << <<3377, 3385, 3405, 3374, 3390, 3451>>, <<82, 97, 104, 109, 97, 110>> >>,   \* 15: 'Rahman'
    << <<3377, 3385, 3391, 3374, 3390, 3451>>, <<82, 97, 104, 109, 97, 110>> >>,   \* 16: 'Rahman'
    << <<3377, 3385, 3391, 3374, 3390, 3368, 3405, 8205>>, <<82, 97, 104, 109, 97, 110>> >>,   \* 17: 'Rahman'
    << <<3368, 3390, 3384, 3452>>, <<78, 97, 115, 101, 114>> >>,   \* 18: 'Naser'
    << <<3368, 3390, 3384, 3376, 3405, 8205>>, <<78, 97, 115, 101, 114>> >>,   \* 19: 'Naser'
    << <<3372, 3392, 3376, 3390, 3451>>, <<66, 101, 101, 114, 97, 110>> >>,   \* 20: 'Beeran'
    << <<3372, 3392, 3376, 3390, 3368, 3405, 8205>>, <<66, 101, 101, 114, 97, 110>> >>,   \* 21: 'Beeran'
    << <<3337, 3374, 3405, 3374, 3452>>, <<85, 109, 109, 97, 114>> >>,   \* 22: 'Ummar'
    << <<3337, 3374, 3405, 3374, 3376, 3405, 8205>>, <<85, 109, 109, 97, 114>> >>,   \* 23: 'Ummar'
    << <<3374, 3402, 3375, 3405, 3364, 3392, 3451>>, <<77, 111, 105, 116, 104, 101, 101, 110>> >>,   \* 24: 'Moitheen'
    << <<3374, 3402, 3375, 3405, 3364, 3392, 3368, 3405, 8205>>, <<77, 111, 105, 116, 104, 101, 101, 110>> >>,   \* 25: 'Moitheen'
    << <<3333, 3378, 3391>>, <<65, 108, 105>> >>,   \* 26: 'Ali'
    << <<3385, 3384, 3392, 3368>>, <<72, 97, 115, 101, 101, 110, 97>> >>,   \* 27: 'Haseena'
    << <<3385, 3384, 3392, 3368, 3390>>, <<72, 97, 115, 101, 101, 110, 97>> >>,   \* 28: 'Haseena'
    << <<3334, 3374, 3391, 3368>>, <<65, 109, 105, 110, 97>> >>,   \* 29: 'Amina'
    << <<3384, 3400, 3368, 3372>>, <<83, 97, 105, 110, 97, 98, 97>> >>,   \* 30: 'Sainaba'
    << <<3350, 3366, 3392, 3356>>, <<75, 104, 97, 100, 105, 106, 97>> >>,   \* 31: 'Khadija'
    << <<3368, 3394, 3377, 3393, 3368, 3405, 3368, 3392, 3384>>, <<78, 111, 111, 114, 110, 105, 115, 97>> >>,   \* 32: 'Noornisa'
    << <<3376, 3390, 3356, 3399, 3383, 3405>>, <<82, 97, 106, 101, 115, 104>> >>,   \* 33: 'Rajesh'
    << <<3376, 3390, 3356, 3399, 3383, 3405, 8204>>, <<82, 97, 106, 101, 115, 104>> >>,   \* 34: 'Rajesh'
    << <<3378, 3349, 3405, 3383, 3405, 3374, 3391>>, <<76, 97, 107, 115, 104, 109, 105>> >>,   \* 35: 'Lakshmi'
    << <<3356, 3375, 3378, 3349, 3405, 3383, 3405, 3374, 3391>>, <<74, 97, 121, 97, 108, 97, 107, 115, 104, 109, 105>> >>,   \* 36: 'Jayalakshmi'
    << <<3351, 3403, 3370, 3391, 3368, 3390, 3365, 3451>>, <<71, 111, 112, 105, 110, 97, 116, 104, 97, 110>> >>,   \* 37: 'Gopinathan'
    << <<3351, 3403, 3370, 3391, 3368, 3390, 3365, 3368, 3405, 8205>>, <<71, 111, 112, 105, 110, 97, 116, 104, 97, 110>> >>,   \* 38: 'Gopinathan'
    << <<3351, 3403, 3370, 3390, 3378, 3349, 3395, 3383, 3405, 3363, 3451>>, <<71, 111, 112, 97, 108, 97, 107, 114, 105, 115, 104, 110, 97, 110>> >>,   \* 39: 'Gopalakrishnan'
    << <<3349, 3395, 3383, 3405, 3363, 3451>>, <<75, 114, 105, 115, 104, 110, 97, 110>> >>,   \* 40: 'Krishnan'
    << <<3372, 3390, 3378, 3349, 3395, 3383, 3405, 3363, 3451>>, <<66, 97, 108, 97, 107, 114, 105, 115, 104, 110, 97, 110>> >>,   \* 41: 'Balakrishnan'
    << <<3368, 3390, 3376, 3390, 3375, 3363, 3451>>, <<78, 97, 114, 97, 121, 97, 110, 97, 110>> >>,   \* 42: 'Narayanan'
    << <<3382, 3353, 3405, 3349, 3376, 3451>>, <<83, 104, 97, 110, 107, 97, 114, 97, 110>> >>,   \* 43: 'Shankaran'
    << <<3381, 3391, 3356, 3375, 3451>>, <<86, 105, 106, 97, 121, 97, 110>> >>,   \* 44: 'Vijayan'
    << <<3366, 3391, 3368, 3399, 3382, 3451>>, <<68, 105, 110, 101, 115, 104, 97, 110>> >>,   \* 45: 'Dineshan'
    << <<3384, 3393, 3376, 3399, 3383, 3405>>, <<83, 117, 114, 101, 115, 104>> >>,   \* 46: 'Suresh'
    << <<3374, 3368, 3403, 3356, 3405>>, <<77, 97, 110, 111, 106>> >>,   \* 47: 'Manoj'
    << <<3370, 3405, 3376, 3366, 3392, 3370, 3405>>, <<80, 114, 97, 100, 101, 101, 112>> >>,   \* 48: 'Pradeep'
    << <<3333, 3368, 3391, 3364>>, <<65, 110, 105, 116, 104, 97>> >>,   \* 49: 'Anitha'
    << <<3382, 3390, 3368, 3405, 3364>>, <<83, 104, 97, 110, 116, 104, 97>> >>,   \* 50: 'Shantha'
    << <<3349, 3374, 3378>>, <<75, 97, 109, 97, 108, 97>> >>,   \* 51: 'Kamala'
    << <<3351, 3392, 3364>>, <<71, 101, 101, 116, 104, 97>> >>,   \* 52: 'Geetha'
    << <<3382, 3405, 3376, 3392, 3366, 3399, 3381, 3391>>, <<83, 114, 101, 101, 100, 101, 118, 105>> >>,   \* 53: 'Sreedevi'
    << <<3384, 3371, 3391, 3375>>, <<83, 97, 102, 105, 121, 97>> >>,   \* 54: 'Safiya'
    << <<3349, 3393, 3374, 3390, 3452>>, <<75, 117, 109, 97, 114>> >>,   \* 55: 'Kumar'
    << <<3349, 3393, 3374, 3390, 3376, 3405, 8205>>, <<75, 117, 109, 97, 114>> >>,   \* 56: 'Kumar'
    << <<3349, 3393, 3374, 3390, 3376, 3391>>, <<75, 117, 109, 97, 114, 105>> >>,   \* 57: 'Kumari'
    << <<3368, 3390, 3375, 3452>>, <<78, 97, 105, 114>> >>,   \* 58: 'Nair'
    << <<3368, 3390, 3375, 3376, 3405, 8205>>, <<78, 97, 105, 114>> >>,   \* 59: 'Nair'
    << <<3374, 3399, 3368, 3403, 3451>>, <<77, 101, 110, 111, 110>> >>,   \* 60: 'Menon'
    << <<3374, 3399, 3368, 3403, 3368, 3405, 8205>>, <<77, 101, 110, 111, 110>> >>,   \* 61: 'Menon'
    << <<3370, 3391, 3379, 3405, 3379>>, <<80, 105, 108, 108, 97>> >>,   \* 62: 'Pilla'
    << <<3370, 3363, 3391, 3349, 3405, 3349, 3452>>, <<80, 97, 110, 105, 107, 107, 97, 114>> >>,   \* 63: 'Panikkar'
    << <<3356, 3403, 3384, 3405>>, <<74, 111, 115, 101>> >>,   \* 64: 'Jose'
    << <<3356, 3403, 3384, 3405, 8204>>, <<74, 111, 115, 101>> >>,   \* 65: 'Jose'
    << <<3356, 3403, 3452, 3356, 3405>>, <<71, 101, 111, 114, 103, 101>> >>,   \* 66: 'George'
    << <<3364, 3403, 3374, 3384, 3405>>, <<84, 104, 111, 109, 97, 115>> >>,   \* 67: 'Thomas'
    << <<3374, 3390, 3364, 3405, 3375, 3393>>, <<77, 97, 116, 104, 101, 119>> >>,   \* 68: 'Mathew'
    << <<3354, 3368, 3405, 3366, 3405, 3376, 3451>>, <<67, 104, 97, 110, 100, 114, 97, 110>> >>,   \* 69: 'Chandran'
    << <<3376, 3374, 3399, 3382, 3405>>, <<82, 97, 109, 101, 115, 104>> >>,   \* 70: 'Ramesh'
    << <<3372, 3383, 3392, 3452>>, <<66, 97, 115, 104, 101, 101, 114>> >>,   \* 71: 'Basheer'
    << <<3372, 3383, 3391, 3376, 3405, 8205>>, <<66, 97, 115, 104, 101, 101, 114>> >>,   \* 72: 'Basheer'
    << <<3383, 3390, 3356, 3391>>, <<83, 104, 97, 106, 105>> >>,   \* 73: 'Shaji'
    << <<3384, 3356, 3391>>, <<83, 97, 106, 105>> >>,   \* 74: 'Saji'
    << <<3381, 3391, 3368, 3403, 3366, 3405>>, <<86, 105, 110, 111, 100>> >>,   \* 75: 'Vinod'
    << <<3333, 3368, 3392, 3384, 3405>>, <<65, 110, 101, 101, 115>> >>,   \* 76: 'Anees'
    << <<3384, 3368, 3405, 3364, 3403, 3383, 3405>>, <<83, 97, 110, 116, 104, 111, 115, 104>> >>,   \* 77: 'Santhosh'
    << <<3351, 3363, 3399, 3383, 3405>>, <<71, 97, 110, 101, 115, 104>> >>,   \* 78: 'Ganesh'
    << <<3351, 3363, 3399, 3383, 3405, 8204>>, <<71, 97, 110, 101, 115, 104>> >>,   \* 79: 'Ganesh'
    << <<3351, 3363, 3399, 3382, 3405>>, <<71, 97, 110, 101, 115, 104>> >>,   \* 80: 'Ganesh'
    << <<3372, 3390, 3372, 3393>>, <<66, 97, 98, 117>> >>,   \* 81: 'Babu'
    << <<3374, 3403, 3385, 3451>>, <<77, 111, 104, 97, 110>> >>,   \* 82: 'Mohan'
    << <<3374, 3403, 3385, 3368, 3405, 8205>>, <<77, 111, 104, 97, 110>> >>,   \* 83: 'Mohan'
    << <<3366, 3399, 3381, 3391>>, <<68, 101, 118, 105>> >>,   \* 84: 'Devi'
    << <<3372, 3392, 3381, 3391>>, <<66, 101, 101, 118, 105>> >>,   \* 85: 'Beevi'
    << <<3383, 3391, 3385, 3390, 3372, 3405>>, <<83, 104, 105, 104, 97, 98>> >>,   \* 86: 'Shihab'
    << <<3383, 3391, 3385, 3390, 3372, 3405, 8204>>, <<83, 104, 105, 104, 97, 98>> >>,   \* 87: 'Shihab'
    << <<3333, 3384, 3405, 3374>>, <<65, 115, 109, 97>> >>,   \* 88: 'Asma'
    << <<3334, 3383, 3391, 3377>>, <<65, 115, 104, 105, 114, 97>> >>,   \* 89: 'Ashira'
    << <<3382, 3403, 3373, 3391>>, <<83, 104, 111, 98, 104, 105>> >>,   \* 90: 'Shobhi'
    << <<3342, 3453, 3384>>, <<69, 108, 115, 97>> >>,   \* 91: 'Elsa'
    << <<3342, 3378, 3405, 8205, 3384>>, <<69, 108, 115, 97>> >>,   \* 92: 'Elsa'
    << <<3342, 3378, 3405, 8205, 3384, 3390>>, <<69, 108, 115, 97>> >>,   \* 93: 'Elsa'
    << <<3334, 3382>>, <<65, 115, 104, 97>> >>,   \* 94: 'Asha'
    << <<3368, 3384, 3392, 3452>>, <<78, 97, 115, 101, 101, 114>> >>,   \* 95: 'Naseer'
    << <<3368, 3384, 3392, 3376, 3405, 8205>>, <<78, 97, 115, 101, 101, 114>> >>,   \* 96: 'Naseer'
    << <<3374, 3451, 3384, 3394, 3452>>, <<77, 97, 110, 115, 111, 111, 114>> >>,   \* 97: 'Mansoor'
    << <<3374, 3368, 3405, 8205, 3384, 3394, 3376, 3405, 8205>>, <<77, 97, 110, 115, 111, 111, 114>> >>,   \* 98: 'Mansoor'
    << <<3382, 3330, 3384, 3393, 3366, 3405, 3366, 3392, 3451>>, <<83, 104, 97, 109, 115, 117, 100, 101, 101, 110>> >>,   \* 99: 'Shamsudeen'
    << <<3382, 3330, 3384, 3393, 3366, 3405, 3367, 3392, 3368, 3405, 8205>>, <<83, 104, 97, 109, 115, 117, 100, 101, 101, 110>> >>,   \* 100: 'Shamsudeen'
    << <<3333, 3372, 3394, 3372, 3349, 3405, 3349, 3452>>, <<65, 98, 117, 98, 97, 107, 97, 114>> >>,   \* 101: 'Abubakar'
    << <<3333, 3372, 3394, 3372, 3349, 3405, 3349, 3376, 3405, 8205>>, <<65, 98, 117, 98, 97, 107, 97, 114>> >>,   \* 102: 'Abubakar'
    << <<3333, 3372, 3405, 3366, 3393, 3377, 3385, 3392, 3330>>, <<65, 98, 100, 117, 114, 114, 97, 104, 101, 101, 109>> >>,   \* 103: 'Abdurraheem'
    << <<3384, 3364, 3405, 3375, 3451>>, <<83, 97, 116, 104, 121, 97, 110>> >>,   \* 104: 'Sathyan'
    << <<3384, 3364, 3405, 3375, 3368, 3405, 8205>>, <<83, 97, 116, 104, 121, 97, 110>> >>,   \* 105: 'Sathyan'
    << <<3368, 3372, 3392, 3453>>, <<78, 97, 98, 101, 101, 108>> >>,   \* 106: 'Nabeel'
    << <<3368, 3372, 3391, 3378, 3405, 8205>>, <<78, 97, 98, 101, 101, 108>> >>,   \* 107: 'Nabeel'
    << <<3385, 3390, 3356, 3377>>, <<72, 97, 106, 97, 114, 97>> >>,   \* 108: 'Hajara'
    << <<3356, 3403, 3372, 3391, 3451>>, <<74, 111, 98, 105, 110>> >>,   \* 109: 'Jobin'
    << <<3356, 3403, 3372, 3391, 3368, 3405, 8205>>, <<74, 111, 98, 105, 110>> >>,   \* 110: 'Jobin'
    << <<3370, 3405, 3376, 3366, 3392, 3383, 3405>>, <<80, 114, 97, 100, 101, 101, 115, 104>> >>,   \* 111: 'Pradeesh'
    << <<3374, 3358, 3405, 3356, 3393, 3379>>, <<77, 97, 110, 106, 117, 108, 97>> >>,   \* 112: 'Manjula'
    << <<3374, 3393, 3356, 3392, 3372, 3405>>, <<77, 117, 106, 101, 101, 98>> >>,   \* 113: 'Mujeeb'
    << <<3374, 3393, 3356, 3392, 3372, 3405, 8204>>, <<77, 117, 106, 101, 101, 98>> >>,   \* 114: 'Mujeeb'
    << <<3383, 3394, 3385, 3400, 3372, 3405>>, <<83, 104, 117, 104, 97, 105, 98>> >>,   \* 115: 'Shuhaib'
    << <<3383, 3394, 3385, 3400, 3372, 3405, 8204>>, <<83, 104, 117, 104, 97, 105, 98>> >>,   \* 116: 'Shuhaib'
    << <<3382, 3390, 3376, 3391, 3349, 3405>>, <<83, 104, 97, 114, 105, 107>> >>,   \* 117: 'Sharik'
    << <<3382, 3390, 3376, 3391, 3349, 3405, 8204>>, <<83, 104, 97, 114, 105, 107>> >>,   \* 118: 'Sharik'
    << <<3374, 3393, 3385, 3368, 3405, 3368, 3366, 3405>>, <<77, 117, 104, 97, 110, 110, 101, 100>> >>,   \* 119: 'Muhanned'
    << <<3374, 3402, 3384, 3405, 3364, 3392, 3451>>, <<77, 111, 115, 116, 104, 101, 101, 110>> >>,   \* 120: 'Mostheen'
    << <<3374, 3402, 3384, 3405, 3364, 3392, 3368, 3405, 8205>>, <<77, 111, 115, 116, 104, 101, 101, 110>> >>,   \* 121: 'Mostheen'
    << <<3333, 3383, 3377, 3371, 3405>>, <<65, 115, 104, 114, 97, 102>> >>,   \* 122: 'Ashraf'
    << <<3333, 3383, 3377, 3371, 3405, 8204>>, <<65, 115, 104, 114, 97, 102>> >>,   \* 123: 'Ashraf'
    << <<3351, 3371, 3394, 3452>>, <<71, 104, 97, 102, 111, 111, 114>> >>,   \* 124: 'Ghafoor'
    << <<3351, 3371, 3394, 3376, 3405, 8205>>, <<71, 104, 97, 102, 111, 111, 114>> >>,   \* 125: 'Ghafoor'
    << <<3349, 3393, 3358, 3405, 3358, 3390, 3378, 3391>>, <<75, 117, 110, 106, 97, 108, 105>> >>,   \* 126: 'Kunjali'
    << <<3349, 3394, 3358, 3405, 3358, 3390, 3378, 3391>>, <<75, 117, 110, 106, 97, 108, 105>> >>,   \* 127: 'Kunjali'
    << <<3368, 3390, 3384, 3391, 3377, 3393, 3366, 3405, 3366, 3392, 3451>>, <<78, 97, 115, 105, 114, 117, 100, 101, 101, 110>> >>,   \* 128: 'Nasirudeen'
    << <<3368, 3390, 3384, 3391, 3377, 3393, 3366, 3405, 3366, 3392, 3368, 3405, 8205>>, <<78, 97, 115, 105, 114, 117, 100, 101, 101, 110>> >>,   \* 129: 'Nasirudeen'
    << <<3337, 3363, 3405, 3363, 3391, 3374, 3403, 3375, 3391, 3451>>, <<85, 110, 110, 105, 109, 111, 121, 105, 110>> >>,   \* 130: 'Unnimoyin'
    << <<3337, 3363, 3405, 3363, 3391, 3374, 3403, 3375, 3391, 3368, 3405, 8205>>, <<85, 110, 110, 105, 109, 111, 121, 105, 110>> >>,   \* 131: 'Unnimoyin'
    << <<3384, 3400, 3366, 3378, 3381, 3391>>, <<83, 97, 105, 100, 97, 108, 97, 118, 105>> >>   \* 132: 'Saidalavi'
    >>

(***************************************************************************)
(* Sequence helpers.                                                       *)
(***************************************************************************)
At(s, k) == s[k + 1]

RECURSIVE Flatten(_)
\* ''.join(list of strings)
Flatten(ss) == IF ss = <<>> THEN <<>> ELSE Head(ss) \o Flatten(Tail(ss))

SeqsUpTo(S, n) == UNION {[1..k -> S] : k \in 0..n}

\* t occurs in s as a contiguous substring
Contains(s, t) ==
    \E k \in 0..(Len(s) - Len(t)) : SubSeq(s, k + 1, k + Len(t)) = t

(***************************************************************************)
(* Character classes.                                                      *)
(***************************************************************************)
\* is_malayalam, lines 156-158: U+0D00 <= char <= U+0D7F
is_malayalam(c) == c >= 3328 /\ c <= 3455

\* str.isascii on one character
isascii(c) == c < 128

IsLower(c) == c >= 97 /\ c <= 122
IsUpper(c) == c >= 65 /\ c <= 90
IsCased(c) == IsLower(c) \/ IsUpper(c)

\* str.title() on a string of ASCII characters: a cased letter becomes upper
\* case when the character before it is not cased, lower case otherwise
title(s) ==
    [k \in 1..Len(s) |->
        LET prev_cased == k > 1 /\ IsCased(s[k - 1]) IN
        IF IsLower(s[k]) /\ ~prev_cased THEN s[k] - 32
        ELSE IF IsUpper(s[k]) /\ prev_cased THEN s[k] + 32
        ELSE s[k]]

(***************************************************************************)
(* transliterate_word, lines 205-288.                                      *)
(***************************************************************************)
\* the 3-character key built at line 245
conjunct_key(chars, k) == <<At(chars, k), VIRAMA, At(chars, k + 2)>>

\* Which branch of the while loop's body runs with the cursor at k (k < n).
WordBranch(chars, k) ==
    LET n == Len(chars)
        c == At(chars, k)
    IN  IF ~is_malayalam(c) /\ c \notin DOMAIN SPECIALS THEN "non_malayalam"
        ELSE IF c \in DOMAIN SPECIALS THEN "special"
        ELSE IF c \in DOMAIN VOWELS THEN "vowel"
        ELSE IF c \in DOMAIN MATRAS THEN "matra"
        ELSE IF c \in DOMAIN CONSONANTS THEN
            IF k + 2 < n /\ At(chars, k + 1) = VIRAMA THEN
                IF conjunct_key(chars, k) \in DOMAIN CONJUNCTS THEN
                    IF k + 3 < n /\ At(chars, k + 3) \in DOMAIN MATRAS
                    THEN "conjunct_matra"
                    ELSE "conjunct"
                ELSE "virama_no_conjunct"
            ELSE IF k + 1 < n /\ At(chars, k + 1) \in DOMAIN MATRAS
                THEN "consonant_matra"
                ELSE "standalone"
        ELSE "unknown"

\* The strings the iteration at k appends to result, in order.
WordAppends(chars, k) ==
    LET n == Len(chars)
        c == At(chars, k)
        b == WordBranch(chars, k)
    IN  CASE b = "non_malayalam" -> IF isascii(c) THEN << <<c>> >> ELSE <<>>
          [] b = "special" -> << SPECIALS[c] >>
          [] b = "vowel" -> << VOWELS[c] >>
          [] b = "matra" -> << MATRAS[c] >>
          [] b = "conjunct_matra" ->
                << CONJUNCTS[conjunct_key(chars, k)] \o MATRAS[At(chars, k + 3)] >>
          [] b = "conjunct" ->
                IF k + 3 < n /\ At(chars, k + 3) \notin DOMAIN MATRAS
                             /\ At(chars, k + 3) # VIRAMA
                THEN << CONJUNCTS[conjunct_key(chars, k)], <<INHERENT_A>> >>
                ELSE << CONJUNCTS[conjunct_key(chars, k)] >>
          [] b = "virama_no_conjunct" -> << CONSONANTS[c] >>
          [] b = "consonant_matra" -> << CONSONANTS[c] \o MATRAS[At(chars, k + 1)] >>
          [] b = "standalone" ->
                IF k + 1 < n /\ At(chars, k + 1) \notin DOMAIN MATRAS
                             /\ At(chars, k + 1) # VIRAMA
                THEN << CONSONANTS[c], <<INHERENT_A>> >>
                ELSE << CONSONANTS[c] >>
          [] OTHER -> <<>>

\* a variant of WordAdvance that skips one character too many after a
\* conjunct with a vowel sign
WordAdvanceWide(chars, k) ==
    LET b == WordBranch(chars, k)
    IN  CASE b = "conjunct_matra" -> 5
          [] b = "conjunct" -> 3
          [] b \in {"virama_no_conjunct", "consonant_matra"} -> 2
          [] OTHER -> 1

\* How far the iteration at k moves the cursor.
WordAdvance(chars, k) ==
    LET b == WordBranch(chars, k)
    IN  CASE b = "conjunct_matra" -> 4
          [] b = "conjunct" -> 3
          [] b \in {"virama_no_conjunct", "consonant_matra"} -> 2
          [] OTHER -> 1

\* The indices of chars the iteration at k reads, by the short-circuit order
\* of the conditions: chars[i] at line 213; for a consonant chars[i + 1] at
\* line 243 when i + 2 < n, chars[i + 2] at line 245 when that is virama,
\* chars[i + 3] at lines 248 and 255 when the key is a conjunct and i + 3 < n;
\* otherwise chars[i + 1] at lines 268 and 276 when i + 1 < n.
WordReads(chars, k) ==
    LET n == Len(chars)
        c == At(chars, k)
    IN  IF c \notin DOMAIN CONSONANTS
           \/ (~is_malayalam(c) /\ c \notin DOMAIN SPECIALS)
           \/ c \in DOMAIN SPECIALS \/ c \in DOMAIN VOWELS \/ c \in DOMAIN MATRAS
        THEN {k}
        ELSE IF k + 2 < n /\ At(chars, k + 1) = VIRAMA
             THEN IF conjunct_key(chars, k) \in DOMAIN CONJUNCTS
                  THEN {k, k + 1, k + 2} \cup (IF k + 3 < n THEN {k + 3} ELSE {})
                  ELSE {k, k + 1, k + 2}
             ELSE {k} \cup (IF k + 1 < n THEN {k + 1} ELSE {})

\* lines 286-288: the joined result in title case, or the word itself
WordResult(chars, res) ==
    LET transliterated == Flatten(res)
    IN  IF transliterated # <<>> THEN title(transliterated) ELSE chars

RECURSIVE WordLoop(_, _, _)
WordLoop(chars, k, res) ==
    IF k < Len(chars)
    THEN WordLoop(chars, k + WordAdvance(chars, k), res \o WordAppends(chars, k))
    ELSE res

\* transliterate_word as a function of its argument
transliterate_word(w) == WordResult(w, WordLoop(w, 0, <<>>))

(***************************************************************************)
(* transliterate_to_english, lines 161-202.                                *)
(***************************************************************************)
\* the characters str.strip() and str.split() treat as whitespace
WHITESPACE ==
    {9, 10, 11, 12, 13, 28, 29, 30, 31, 32, 133, 160, 5760} \cup (8192..8202)
        \cup {8232, 8233, 8239, 8287, 12288}

RECURSIVE lstrip(_)
lstrip(s) == IF s # <<>> /\ Head(s) \in WHITESPACE THEN lstrip(Tail(s)) ELSE s

RECURSIVE rstrip_set(_, _)
\* str.rstrip(chars): drop the trailing characters that are in the set
rstrip_set(s, S) ==
    IF s # <<>> /\ s[Len(s)] \in S
    THEN rstrip_set(SubSeq(s, 1, Len(s) - 1), S)
    ELSE s

\* str.strip()
strip(s) == rstrip_set(lstrip(s), WHITESPACE)

\* lines 171-172: both replace calls remove U+200D and U+200C
remove_joiners(s) == SelectSeq(s, LAMBDA c : c \notin {ZWJ, ZWNJ})

\* lines 169-172
normalise(t) == remove_joiners(strip(t))

\* line 166: not text or not text.strip()
is_blank(t) == t = <<>> \/ strip(t) = <<>>

\* a faulty variant of is_ascii_text: only a text of letters takes the fast path
is_ascii_text_letters(t) == \A k \in 1..Len(t) : IsCased(t[k])

\* line 175: all(c.isascii() or c in ' /-.' for c in text)
is_ascii_text(t) ==
    \A k \in 1..Len(t) : isascii(t[k]) \/ t[k] \in {32, 47, 45, 46}

RECURSIVE split_from(_, _, _)
\* str.split(): the maximal runs of non-whitespace characters, in order
split_from(s, cur, acc) ==
    IF s = <<>> THEN (IF cur = <<>> THEN acc ELSE Append(acc, cur))
    ELSE IF Head(s) \in WHITESPACE
         THEN split_from(Tail(s), <<>>, IF cur = <<>> THEN acc ELSE Append(acc, cur))
         ELSE split_from(Tail(s), Append(cur, Head(s)), acc)

split(s) == split_from(s, <<>>, <<>>)

\* the argument of both rstrip calls at line 191: virama, ZWNJ, ZWJ
RSTRIP_MARKS == {VIRAMA, ZWNJ, ZWJ}

\* line 191: the test of one KNOWN_NAMES entry against the cleaned word
known_entry_matches(clean_word, known_ml) ==
    \/ clean_word = known_ml
    \/ rstrip_set(clean_word, RSTRIP_MARKS) = rstrip_set(known_ml, RSTRIP_MARKS)

\* lines 190-194: the entries are tried in the dictionary's order and the first
\* that matches wins; 0 when none matches
known_lookup(clean_word) ==
    LET hits == {k \in 1..Len(KNOWN_NAMES) :
                    known_entry_matches(clean_word, KNOWN_NAMES[k][1])}
    IN  IF hits = {} THEN 0 ELSE CHOOSE k \in hits : \A h \in hits : k <= h

\* lines 182-200: what one word contributes to result_words
word_to_english(w) ==
    LET clean_word == strip(w)
        k == known_lookup(clean_word)
    IN  IF clean_word = <<>> THEN <<>>
        ELSE IF k # 0 THEN << KNOWN_NAMES[k][2] >>
        ELSE << transliterate_word(clean_word) >>

RECURSIVE join_space(_)
\* ' '.join(list of strings)
join_space(ws) ==
    IF ws = <<>> THEN <<>>
    ELSE IF Len(ws) = 1 THEN ws[1]
    ELSE ws[1] \o <<32>> \o join_space(Tail(ws))

RECURSIVE words_to_english(_)
\* the for loop of lines 182-200 over the whole list words
words_to_english(ws) ==
    IF ws = <<>> THEN <<>>
    ELSE word_to_english(Head(ws)) \o words_to_english(Tail(ws))

\* transliterate_to_english as a function of its argument
transliterate_to_english(t) ==
    IF is_blank(t) THEN <<>>
    ELSE IF is_ascii_text(normalise(t)) THEN normalise(t)
    ELSE join_space(words_to_english(split(normalise(t))))

(***************************************************************************)
(* OCR text for the parser.  A line is a sequence of tokens, the words of  *)
(* the line separated by single spaces; a block or a page is a sequence of *)
(* lines.  A token written in capitals with a colon stands for a Malayalam *)
(* label exactly as the patterns of lines 384-418 spell it:                *)
(*   "PERU:"              U+0D2A 0D47 0D30 0D4D ' :'   (name)              *)
(*   "ACHANTE_PERU:"      U+0D05 0D1A 0D4D 0D1B 0D28 0D4D 0D31 0D46        *)
(*                        ' ' PERU ' :'                 (father's name)    *)
(*   "BHARTHAVINTE_PERU:" U+0D2D 0D30 0D4D 200D 0D24 0D4D 0D24 0D3E 0D35   *)
(*                        0D3F 0D28 0D4D 0D31 0D46 ' ' PERU ' :' (husband) *)
(*   "MATTULLAVA:"        U+0D2E 0D31 0D4D 0D31 0D41 0D33 0D4D 0D33 0D35   *)
(*                        ' :'                          (others)           *)
(*   "VEETTU_NAMBAR:"     U+0D35 0D40 0D1F 0D4D 0D1F 0D41 ' ' 0D28 0D2E    *)
(*                        0D4D 0D2A 0D30 0D4D 200D ' :' (house number)     *)
(*   "PRAYAM:"            U+0D2A 0D4D 0D30 0D3E 0D2F 0D02 ' :'  (age)      *)
(* and these stand for the words the code looks for:                       *)
(*   "STHREE"   U+0D38 0D4D 0D24 0D4D 0D30 0D40   (line 430, feminine)     *)
(*   "PURUSHAN" U+0D2A 0D41 0D30 0D41 0D37 0D7B   (masculine)              *)
(*   "PHOTO"    U+0D2B 0D4B 0D1F 0D4D 0D1F 0D4B   (line 351)               *)
(*   "TO"       U+0D1F 0D4B                       (lines 415, 454, noise)  *)
(*   "VAYASS"   U+0D35 0D2F 0D38 0D4D 0D38 0D4D   (line 348, terminator)   *)
(* Every other token is its own ASCII text: identifiers ("AB123456"),      *)
(* numbers ("25"), values ("N1"), the bar "|".                             *)
(***************************************************************************)
\* an absent value (Python's None) and a present one
None == <<>>
Some(v) == <<v>>

\* identifiers in capitals, and one in small letters
UpperIds == {"AB123456", "CD654321", "GH111222"}
LowerIds == {"ef123456"}
IdTokens == UpperIds \cup LowerIds

\* str.upper() on an identifier (line 438)
upper ==
    [t \in IdTokens \cup {""} |->
        IF t = "ef123456" THEN "EF123456" ELSE t]

\* the number tokens and their digits
DigitsOf ==
    ("1" :> <<1>>) @@ ("2" :> <<2>>) @@ ("3" :> <<3>>) @@ ("4" :> <<4>>) @@
    ("00" :> <<0, 0>>) @@ ("17" :> <<1, 7>>) @@ ("18" :> <<1, 8>>) @@
    ("25" :> <<2, 5>>) @@ ("120" :> <<1, 2, 0>>) @@ ("121" :> <<1, 2, 1>>) @@
    ("0250" :> <<0, 2, 5, 0>>) @@ ("12345" :> <<1, 2, 3, 4, 5>>)

NumberTokens == DOMAIN DigitsOf

RECURSIVE int_of(_)
\* int() of a string of decimal digits
int_of(ds) == IF ds = <<>> THEN 0 ELSE 10 * int_of(SubSeq(ds, 1, Len(ds) - 1)) + ds[Len(ds)]

\* the first maximal run of two or more digits inside a token, <<>> when the
\* token has none: a number of two digits or more, the digits of an identifier
DigitRun(t) ==
    IF t \in NumberTokens THEN (IF Len(DigitsOf[t]) >= 2 THEN DigitsOf[t] ELSE <<>>)
    ELSE IF t = "AB123456" THEN <<1, 2, 3, 4, 5, 6>>
    ELSE IF t = "CD654321" THEN <<6, 5, 4, 3, 2, 1>>
    ELSE IF t = "GH111222" THEN <<1, 1, 1, 2, 2, 2>>
    ELSE IF t = "ef123456" THEN <<1, 2, 3, 4, 5, 6>>
    ELSE <<>>

\* tokens whose last character is a digit
EndsWithDigit(t) == t \in NumberTokens \cup IdTokens \cup {"N1", "N2", "N3", "R1", "R2", "H1", "H2"}

\* the label tokens
NameLabel == "PERU:"
RelativeLabels == {"ACHANTE_PERU:", "BHARTHAVINTE_PERU:", "MATTULLAVA:"}
HouseLabel == "VEETTU_NAMBAR:"
AgeLabel == "PRAYAM:"

HasToken(line, S) == \E k \in 1..Len(line) : line[k] \in S

(***************************************************************************)
(* parse_voter_block, lines 367-463.                                       *)
(***************************************************************************)
\* lines 382-391: the accumulator a block line is appended to, "none" for a
\* line that is appended to none
\*   line 382: [A-Z]{2,3}\d{6,} finds an identifier in capitals
\*   line 384: the name pattern is found (the two relative labels that end in
\*             PERU ' :' contain it too) and none of the three relative stems
\*   line 386: one of the three relative words is found
\*   line 388: the house label;  line 390: the age label
classify_line(line) ==
    IF HasToken(line, UpperIds) THEN "none"
    ELSE IF HasToken(line, {NameLabel, "ACHANTE_PERU:", "BHARTHAVINTE_PERU:"})
            /\ ~HasToken(line, RelativeLabels) THEN "name"
    ELSE IF HasToken(line, RelativeLabels) THEN "relative"
    ELSE IF HasToken(line, {HouseLabel}) THEN "house"
    ELSE IF HasToken(line, {AgeLabel}) THEN "age_gender"
    ELSE "none"

RECURSIVE accumulate(_, _)
\* lines 377-391 for one accumulator: the lines of the block classified as
\* kind, each appended after a space, as one sequence of tokens
accumulate(ls, kind) ==
    IF ls = <<>> THEN <<>>
    ELSE (IF Head(ls) # <<>> /\ classify_line(Head(ls)) = kind
          THEN Head(ls) ELSE <<>>) \o accumulate(Tail(ls), kind)

RECURSIVE split_on(_, _, _, _)
\* re.split(label pattern, line): the runs of tokens between the label tokens,
\* the run before the first label and the run after the last one included,
\* empty runs included
split_on(line, labels, cur, acc) ==
    IF line = <<>> THEN Append(acc, cur)
    ELSE IF Head(line) \in labels
         THEN split_on(Tail(line), labels, <<>>, Append(acc, cur))
         ELSE split_on(Tail(line), labels, Append(cur, Head(line)), acc)

\* [x.strip() for x in parts if x.strip()]
non_empty(parts) == SelectSeq(parts, LAMBDA p : p # <<>>)

\* lines 394-395, 398-399, 413-414, 418-419: the column of an accumulator
split_column(line, labels) == non_empty(split_on(line, labels, <<>>, <<>>))

\* re.sub(r'\s*(...)\s*$', '', v).strip(): the last token goes when it is one
\* of the noise words
strip_last(v, noise) ==
    IF v # <<>> /\ v[Len(v)] \in noise THEN SubSeq(v, 1, Len(v) - 1) ELSE v

\* line 415 on one house value.  The pattern has no alternative for the whole
\* word PHOTO, so of a final PHOTO it removes the ending TO and leaves "PHOT"
\* (U+0D2B 0D4B 0D1F 0D4D)
clean_house(v) ==
    IF v # <<>> /\ v[Len(v)] = "PHOTO"
    THEN SubSeq(v, 1, Len(v) - 1) \o <<"PHOT">>
    ELSE strip_last(v, {"TO"})

\* lines 454-455 on a name
clean_name(v) == strip_last(strip_last(v, {"PHOTO", "TO"}), {"|"})

\* line 458 on a relative's name
clean_relative(v) == strip_last(v, {"PHOTO", "TO"})

\* lines 403-410: one relation type for every relative word, in order
relation_type_of(t) ==
    IF t = "ACHANTE_PERU:" THEN "Father"
    ELSE IF t = "BHARTHAVINTE_PERU:" THEN "Husband"
    ELSE "Other"

relation_types_of(line) ==
    LET labs == SelectSeq(line, LAMBDA t : t \in RelativeLabels)
    IN  [k \in 1..Len(labs) |-> relation_type_of(labs[k])]

\* line 424: re.search(r'(\d{2,3})', part), the digits matched or <<>>
age_match(part) ==
    LET runs == SelectSeq(part, LAMBDA t : DigitRun(t) # <<>>)
    IN  IF runs = <<>> THEN <<>>
        ELSE LET ds == DigitRun(runs[1])
             IN  SubSeq(ds, 1, IF Len(ds) >= 3 THEN 3 ELSE 2)

\* lines 425-427
age_of(part) ==
    LET m == age_match(part)
        age_val == IF m # <<>> THEN Some(int_of(m)) ELSE None
    IN  IF age_val # None /\ age_val[1] # 0
           /\ (age_val[1] < 18 \/ age_val[1] > 120)
        THEN None
        ELSE age_val

\* lines 430-433
gender_of(part) == IF HasToken(part, {"STHREE"}) THEN "Female" ELSE "Male"

\* a faulty variant of get: past the end of a column it repeats the column's
\* last element
get_clamped(column, idx) ==
    IF column = <<>> THEN None
    ELSE IF idx < Len(column) THEN Some(At(column, idx))
    ELSE Some(column[Len(column)])

\* an element of a list when the index is inside it, None otherwise
get(column, idx) == IF idx < Len(column) THEN Some(At(column, idx)) ELSE None

\* lines 438-450 and 453-458: the record built for index idx
build_voter(idx, ids, serials, c) ==
    LET name_ml == get(c.names, idx)
        relative_name_ml == get(c.rel_names, idx)
    IN  [ serial_no |-> IF idx < Len(serials)
                        THEN Some(int_of(DigitsOf[At(serials, idx)])) ELSE None,
          voter_id |-> IF idx < Len(ids) THEN Some(upper[At(ids, idx)]) ELSE None,
          name_ml |-> IF name_ml # None /\ name_ml[1] # <<>>
                      THEN Some(clean_name(name_ml[1])) ELSE name_ml,
          relative_name_ml |-> IF relative_name_ml # None /\ relative_name_ml[1] # <<>>
                               THEN Some(clean_relative(relative_name_ml[1]))
                               ELSE relative_name_ml,
          relation_type |-> IF idx < Len(c.relation_types)
                            THEN At(c.relation_types, idx) ELSE "Father",
          house_number |-> get(c.houses, idx),
          age |-> IF idx < Len(c.ages) THEN At(c.ages, idx) ELSE None,
          gender |-> get(c.genders, idx) ]

\* a faulty variant of is_kept: every record is kept
is_kept_always(v) == TRUE

\* line 460: if voter["voter_id"]
is_kept(v) == v.voter_id # None /\ v.voter_id[1] # ""

\* lines 393-433: the columns split out of the four accumulators
columns_of(name_l, relative_l, house_l, age_gender_l) ==
    LET houses_raw == split_column(house_l, {HouseLabel})
        age_gender_parts == split_column(age_gender_l, {AgeLabel})
    IN  [ names |-> split_column(name_l, {NameLabel}),
          rel_names |-> split_column(relative_l, RelativeLabels),
          relation_types |-> relation_types_of(relative_l),
          houses |-> [k \in 1..Len(houses_raw) |-> clean_house(houses_raw[k])],
          ages |-> [k \in 1..Len(age_gender_parts) |-> age_of(age_gender_parts[k])],
          genders |-> [k \in 1..Len(age_gender_parts) |-> gender_of(age_gender_parts[k])] ]

RECURSIVE build_voters(_, _, _, _)
\* lines 436-461: the loop over range(num_voters), from index idx on
build_voters(idx, ids, serials, c) ==
    IF idx >= Len(ids) THEN <<>>
    ELSE LET v == build_voter(idx, ids, serials, c)
         IN  (IF is_kept(v) THEN <<v>> ELSE <<>>)
                 \o build_voters(idx + 1, ids, serials, c)

\* parse_voter_block as a function of its arguments
parse_voter_block(ls, ids, serials) ==
    build_voters(0, ids, serials,
        columns_of(accumulate(ls, "name"), accumulate(ls, "relative"),
                   accumulate(ls, "house"), accumulate(ls, "age_gender")))

(***************************************************************************)
(* parse_ocr_text, lines 312-364.                                          *)
(***************************************************************************)
\* lines 318-319: the non-blank lines of the page
page_lines(raw) == SelectSeq(raw, LAMBDA l : l # <<>>)

\* a whole token of one to four digits: what (?:^|\s)(\d{1,4})\s+ matches
IsSerial(t) == t \in NumberTokens /\ Len(DigitsOf[t]) <= 4

\* line 327: \d+\s+[A-Z]{2,3}\d{6,} -- a token ending in a digit, then an
\* identifier in capitals
is_start_line(line) ==
    \E k \in 1..(Len(line) - 1) : EndsWithDigit(line[k]) /\ line[k + 1] \in UpperIds

\* lines 325-329: the index of the first such line, 0 when there is none
find_start(ls) ==
    LET hits == {k \in 0..(Len(ls) - 1) : is_start_line(At(ls, k))}
    IN  IF hits = {} THEN 0 ELSE CHOOSE k \in hits : \A h \in hits : k <= h

\* line 335: re.findall(r'[A-Za-z]{2,3}\d{6,10}', line)
voter_ids_in(line) == SelectSeq(line, LAMBDA t : t \in IdTokens)

\* line 339: the serial numbers, each a whole number token right before an
\* identifier
serial_nums_in(line) ==
    LET at == {k \in 1..(Len(line) - 1) : IsSerial(line[k]) /\ line[k + 1] \in IdTokens}
        pick[k \in 0..Len(line)] ==
            IF k = 0 THEN <<>>
            ELSE IF k \in at THEN Append(pick[k - 1], line[k]) ELSE pick[k - 1]
    IN  pick[Len(line)]

\* line 346: a serial number and an identifier start the next block
is_block_start(line) ==
    \E k \in 1..(Len(line) - 1) : IsSerial(line[k]) /\ line[k + 1] \in IdTokens

\* line 348: the line holds a terminator word
is_terminator(line) == HasToken(line, {"VAYASS"})

\* line 351: nothing but the photo placeholder
is_photo(line) == line # <<>> /\ \A k \in 1..Len(line) : line[k] = "PHOTO"

\* a variant of block_end that takes the line that ends the block into it
block_end_past(ls, j) ==
    LET enders == {m \in j..(Len(ls) - 1) :
                      is_block_start(At(ls, m)) \/ is_terminator(At(ls, m))}
    IN  IF enders = {} THEN Len(ls)
        ELSE (CHOOSE m \in enders : \A h \in enders : m <= h) + 1

RECURSIVE block_end(_, _)
\* lines 343-355: the index j at which the inner while loop stops
block_end(ls, j) ==
    IF j >= Len(ls) THEN j
    ELSE IF is_block_start(At(ls, j)) \/ is_terminator(At(ls, j)) THEN j
    ELSE block_end(ls, j + 1)

\* lines 342-355: the indices of the lines collected into the block that
\* starts at k, in order
block_members(ls, k) ==
    LET j == block_end(ls, k + 1)
        idx == [m \in 1..(j - k) |-> k + m - 1]
    IN  SelectSeq(idx, LAMBDA m : m = k \/ ~is_photo(At(ls, m)))

\* line 357 (and line 370): the block's lines
block_lines_of(ls, k) ==
    LET ms == block_members(ls, k)
    IN  [m \in 1..Len(ms) |-> At(ls, ms[m])]

\* lines 357-358: the records of the block that starts at line k
parse_block_at(ls, k) ==
    parse_voter_block(block_lines_of(ls, k), voter_ids_in(At(ls, k)),
                      serial_nums_in(At(ls, k)))

RECURSIVE parse_from(_, _)
\* lines 332-362: the outer while loop from index k on
parse_from(ls, k) ==
    IF k >= Len(ls) THEN <<>>
    ELSE IF voter_ids_in(At(ls, k)) # <<>>
         THEN parse_block_at(ls, k) \o parse_from(ls, block_end(ls, k + 1))
         ELSE parse_from(ls, k + 1)

\* parse_ocr_text as a function of the page's lines
parse_ocr_text(raw) ==
    LET ls == page_lines(raw)
    IN  IF ls = <<>> THEN <<>> ELSE parse_from(ls, find_start(ls))

(***************************************************************************)
(* The while loop of transliterate_word as a state machine: one action per *)
(* branch of the loop body.                                                *)
(***************************************************************************)
\* KA, RA, virama, the vowel sign I
ClusterAlphabet == {3349, 3376, 3405, 3391}

\* the cluster alphabet and: the vowel A, the chillu N (a special), 'x',
\* e-acute (neither ASCII nor Malayalam), the Malayalam digit one (in the
\* block, in no table)
WordAlphabet == ClusterAlphabet \cup {3333, 3451, 120, 233, 3431}

Words == SeqsUpTo(WordAlphabet, MaxWordLen) \cup SeqsUpTo(ClusterAlphabet, MaxClusterLen)

WordIdle ==
    /\ word = <<>> /\ i = 0 /\ result = <<>> /\ word_ret = <<>>
    /\ scan = <<>> /\ wpc = "idle"

\* a run of transliterate_word leaves the rest of the program alone
WordFrame == UNCHANGED <<textVars, blockVars, pageVars, mainVars>>

WordInit ==
    /\ word \in Words
    /\ i = 0
    /\ result = <<>>
    /\ word_ret = <<>>
    /\ scan = <<>>
    /\ wpc = "scan"

\* one iteration of the loop, lines 212-284: what every branch does with
\* its appends and its advance
WordIteration ==
    /\ wpc = "scan"
    /\ i < Len(word)
    /\ result' = result \o WordAppends(word, i)
    /\ i' = i + WordAdvance(word, i)
    /\ scan' = Append(scan, [at |-> i, branch |-> WordBranch(word, i),
                             out |-> Flatten(WordAppends(word, i)),
                             reads |-> WordReads(word, i)])
    /\ UNCHANGED <<word, word_ret, wpc>>
    /\ WordFrame

\* lines 216-220
StepNonMalayalam ==
    /\ wpc = "scan" /\ i < Len(word)
    /\ WordBranch(word, i) = "non_malayalam"
    /\ WordIteration

\* lines 223-226
StepSpecial ==
    /\ wpc = "scan" /\ i < Len(word)
    /\ WordBranch(word, i) = "special"
    /\ WordIteration

\* lines 229-232
StepVowel ==
    /\ wpc = "scan" /\ i < Len(word)
    /\ WordBranch(word, i) = "vowel"
    /\ WordIteration

\* lines 235-238
StepMatra ==
    /\ wpc = "scan" /\ i < Len(word)
    /\ WordBranch(word, i) = "matra"
    /\ WordIteration

\* lines 248-251
StepConjunctMatra ==
    /\ wpc = "scan" /\ i < Len(word)
    /\ WordBranch(word, i) = "conjunct_matra"
    /\ WordIteration

\* lines 252-260
StepConjunct ==
    /\ wpc = "scan" /\ i < Len(word)
    /\ WordBranch(word, i) = "conjunct"
    /\ WordIteration

\* lines 261-265
StepViramaNoConjunct ==
    /\ wpc = "scan" /\ i < Len(word)
    /\ WordBranch(word, i) = "virama_no_conjunct"
    /\ WordIteration

\* lines 268-271
StepConsonantMatra ==
    /\ wpc = "scan" /\ i < Len(word)
    /\ WordBranch(word, i) = "consonant_matra"
    /\ WordIteration

\* lines 274-281
StepStandalone ==
    /\ wpc = "scan" /\ i < Len(word)
    /\ WordBranch(word, i) = "standalone"
    /\ WordIteration

\* line 284
StepUnknown ==
    /\ wpc = "scan" /\ i < Len(word)
    /\ WordBranch(word, i) = "unknown"
    /\ WordIteration


\* lines 286-288
WordReturn ==
    /\ wpc = "scan"
    /\ i >= Len(word)
    /\ word_ret' = WordResult(word, result)
    /\ wpc' = "done"
    /\ UNCHANGED <<word, i, result, scan>>
    /\ WordFrame

WordNext ==
    \/ StepNonMalayalam
    \/ StepSpecial
    \/ StepVowel
    \/ StepMatra
    \/ StepConjunctMatra
    \/ StepConjunct
    \/ StepViramaNoConjunct
    \/ StepConsonantMatra
    \/ StepStandalone
    \/ StepUnknown
    \/ WordReturn

(***************************************************************************)
(* transliterate_to_english as a state machine.  TextAgain hands the       *)
(* returned string back as the next argument, so that a second application *)
(* can be compared with the first.                                         *)
(***************************************************************************)
\* 'a', 'B', space, '-', '/', '.'
PlainAlphabet == {97, 66, 32, 45, 47, 46}

PlainTexts == SeqsUpTo(PlainAlphabet, MaxTextLen)

KnownKeys == {KNOWN_NAMES[k][1] : k \in 1..Len(KNOWN_NAMES)}

\* a known name, two words that are in no table entry, an ASCII word, a tab
\* inside a text, a joiner inside a word
SampleWords ==
    { <<3333, 3378, 3391>>, <<3349, 3376>>, <<3349, 3405, 3349, 3376>>,
      <<97, 98>>, <<3349, ZWJ, 3376>> }

MixedTexts ==
    {u \o <<32>> \o v : u, v \in SampleWords}
        \cup {<<32>> \o u \o <<9, 32>> \o v \o <<10>> : u, v \in SampleWords}
        \cup {<<ZWJ>>, <<32, ZWNJ, 32>>, <<97, 9, 98>>}

Texts == PlainTexts \cup KnownKeys \cup SampleWords \cup MixedTexts

TextIdle ==
    /\ text_in = <<>> /\ words = <<>> /\ widx = 0 /\ result_words = <<>>
    /\ text_ret = <<>> /\ tpc = "idle" /\ round = 0
    /\ first_in = <<>> /\ first_ret = <<>>

TextFrame == UNCHANGED <<wordVars, blockVars, pageVars, mainVars>>

TextInit ==
    /\ text_in \in Texts
    /\ words = <<>>
    /\ widx = 0
    /\ result_words = <<>>
    /\ text_ret = <<>>
    /\ tpc = "start"
    /\ round = 1
    /\ first_in = text_in
    /\ first_ret = <<>>

\* lines 166-167
TextBlank ==
    /\ tpc = "start"
    /\ is_blank(text_in)
    /\ text_ret' = <<>>
    /\ tpc' = "done"
    /\ UNCHANGED <<text_in, words, widx, result_words, round, first_in, first_ret>>
    /\ TextFrame

\* lines 169-176: the ASCII fast path
TextAscii ==
    /\ tpc = "start"
    /\ ~is_blank(text_in)
    /\ is_ascii_text(normalise(text_in))
    /\ text_ret' = normalise(text_in)
    /\ tpc' = "done"
    /\ UNCHANGED <<text_in, words, widx, result_words, round, first_in, first_ret>>
    /\ TextFrame

\* lines 169-180: not ASCII, split into words
TextSplit ==
    /\ tpc = "start"
    /\ ~is_blank(text_in)
    /\ ~is_ascii_text(normalise(text_in))
    /\ words' = split(normalise(text_in))
    /\ widx' = 0
    /\ result_words' = <<>>
    /\ tpc' = "words"
    /\ UNCHANGED <<text_in, text_ret, round, first_in, first_ret>>
    /\ TextFrame

\* lines 182-197: the word matches an entry of KNOWN_NAMES
TextKnownWord ==
    /\ tpc = "words"
    /\ widx < Len(words)
    /\ known_lookup(strip(At(words, widx))) # 0
    /\ result_words' = result_words \o word_to_english(At(words, widx))
    /\ widx' = widx + 1
    /\ UNCHANGED <<text_in, words, text_ret, tpc, round, first_in, first_ret>>
    /\ TextFrame

\* lines 182-200: no entry matches, the word goes to transliterate_word
TextOtherWord ==
    /\ tpc = "words"
    /\ widx < Len(words)
    /\ known_lookup(strip(At(words, widx))) = 0
    /\ result_words' = result_words \o word_to_english(At(words, widx))
    /\ widx' = widx + 1
    /\ UNCHANGED <<text_in, words, text_ret, tpc, round, first_in, first_ret>>
    /\ TextFrame

\* line 202
TextJoin ==
    /\ tpc = "words"
    /\ widx >= Len(words)
    /\ text_ret' = join_space(result_words)
    /\ tpc' = "done"
    /\ UNCHANGED <<text_in, words, widx, result_words, round, first_in, first_ret>>
    /\ TextFrame

\* the returned string becomes the argument of a second call
TextAgain ==
    /\ tpc = "done"
    /\ round = 1
    /\ first_ret' = text_ret
    /\ text_in' = text_ret
    /\ round' = 2
    /\ words' = <<>>
    /\ widx' = 0
    /\ result_words' = <<>>
    /\ text_ret' = <<>>
    /\ tpc' = "start"
    /\ UNCHANGED first_in
    /\ TextFrame

TextNext ==
    \/ TextBlank
    \/ TextAscii
    \/ TextSplit
    \/ TextKnownWord
    \/ TextOtherWord
    \/ TextJoin
    \/ TextAgain

(***************************************************************************)
(* parse_voter_block as a state machine: the classification loop, the      *)
(* column splitting, the record loop.                                      *)
(***************************************************************************)
\* one label followed by its value, for every column of the card layout
NameCells == { <<"PERU:">>, <<"PERU:", "N1">>, <<"PERU:", "N2", "TO">> }
RelativeCells == { <<"ACHANTE_PERU:", "R1">>, <<"BHARTHAVINTE_PERU:">>,
                   <<"MATTULLAVA:", "R2", "PHOTO">> }
HouseCells == { <<"VEETTU_NAMBAR:">>, <<"VEETTU_NAMBAR:", "H1">> }
AgeCells == { <<"PRAYAM:">>, <<"PRAYAM:", "25">>, <<"PRAYAM:", "00">>,
              <<"PRAYAM:", "17">>, <<"PRAYAM:", "121", "STHREE">> }

\* the lines of one to MaxCols cells
CellLines(cells) ==
    {Flatten(cs) : cs \in UNION {[1..k -> cells] : k \in 1..MaxCols}}

\* the field lines by kind, in the order the layout prints them; the last
\* kind holds lines the layout does not have: the identifier line, text
\* with no label, a house label inside a name line, a bar
FieldLines ==
    << CellLines(NameCells), CellLines(RelativeCells), CellLines(HouseCells),
       CellLines(AgeCells),
       { <<"1", "AB123456">>, <<"N3">>,
         <<"PERU:", "N1", "VEETTU_NAMBAR:", "H1">>, <<"PERU:", "N1", "|">>,
         <<"VEETTU_NAMBAR:", "PHOTO">>, <<"PRAYAM:", "0250", "PRAYAM:", "ef123456">> } >>

\* a block: no field line, one, or two in the layout's order of kinds
Blocks ==
    {<<>>}
        \cup {<<l>> : l \in UNION {FieldLines[k] : k \in 1..Len(FieldLines)}}
        \cup UNION { {<<l1, l2>> : l1 \in FieldLines[p[1]], l2 \in FieldLines[p[2]]} :
                        p \in {q \in (1..Len(FieldLines)) \X (1..Len(FieldLines)) :
                                  q[1] <= q[2]} }

IdPool == <<"ef123456", "AB123456", "CD654321", "GH111222">>
SerialPool == <<"1", "2", "3", "4">>

\* the first n identifiers of the pool, round and round
IdRow(n) == [k \in 1..n |-> IdPool[((k - 1) % Len(IdPool)) + 1]]
SerialRow(n) == [k \in 1..n |-> SerialPool[((k - 1) % Len(SerialPool)) + 1]]

\* rows of up to MaxIds identifiers, and two rows with an empty identifier
IdLists == {IdRow(n) : n \in 0..MaxIds} \cup {<<"", "AB123456">>, <<"AB123456", "">>}

BlockIdle ==
    /\ block_text = <<>> /\ voter_ids = <<>> /\ serial_nums = <<>>
    /\ name_line = <<>> /\ relative_line = <<>> /\ house_line = <<>>
    /\ age_gender_line = <<>>
    /\ cols = <<>> /\ voters = <<>> /\ bpc = "idle"

BlockFrame == UNCHANGED <<wordVars, textVars, pageVars, mainVars>>

BlockInit ==
    /\ block_text \in Blocks
    /\ voter_ids \in IdLists
    /\ serial_nums \in {<<>>, SerialRow(Len(voter_ids))}
    /\ name_line = <<>> /\ relative_line = <<>> /\ house_line = <<>>
    /\ age_gender_line = <<>>
    /\ cols = <<>>
    /\ voters = <<>>
    /\ bpc = "start"

\* lines 372-391
ClassifyLines ==
    /\ bpc = "start"
    /\ name_line' = accumulate(block_text, "name")
    /\ relative_line' = accumulate(block_text, "relative")
    /\ house_line' = accumulate(block_text, "house")
    /\ age_gender_line' = accumulate(block_text, "age_gender")
    /\ bpc' = "classified"
    /\ UNCHANGED <<block_text, voter_ids, serial_nums, cols, voters>>
    /\ BlockFrame

\* lines 393-433
SplitColumns ==
    /\ bpc = "classified"
    /\ cols' = columns_of(name_line, relative_line, house_line, age_gender_line)
    /\ bpc' = "split"
    /\ UNCHANGED <<block_text, voter_ids, serial_nums, name_line, relative_line,
                   house_line, age_gender_line, voters>>
    /\ BlockFrame

\* lines 435-463
BuildRecords ==
    /\ bpc = "split"
    /\ voters' = build_voters(0, voter_ids, serial_nums, cols)
    /\ bpc' = "done"
    /\ UNCHANGED <<block_text, voter_ids, serial_nums, name_line, relative_line,
                   house_line, age_gender_line, cols>>
    /\ BlockFrame

BlockNext ==
    \/ ClassifyLines
    \/ SplitColumns
    \/ BuildRecords

(***************************************************************************)
(* parse_ocr_text as a state machine: the search for the start of the data *)
(* and the outer while loop, one block or one skipped line per step.       *)
(***************************************************************************)
\* a blank line, a header, a row of one card and of two, an identifier with
\* no serial number, two of them, a row whose identifier is in small
\* letters, a name line, the footer, a photo placeholder
PageLineSet ==
    { <<>>, <<"N3">>, <<"1", "AB123456">>, <<"1", "AB123456", "2", "CD654321">>,
      <<"GH111222">>, <<"GH111222", "CD654321">>, <<"3", "ef123456">>,
      <<"PERU:", "N1", "PERU:", "N2">>, <<"VAYASS">>, <<"PHOTO">> }

Pages == SeqsUpTo(PageLineSet, MaxPageLines)

PageIdle ==
    /\ page = <<>> /\ lines = <<>> /\ start_idx = 0 /\ pidx = 0
    /\ page_voters = <<>> /\ origins = <<>> /\ blocks = <<>> /\ ppc = "idle"

PageFrame == UNCHANGED <<wordVars, textVars, blockVars, mainVars>>

PageInit ==
    /\ page \in Pages
    /\ lines = <<>>
    /\ start_idx = 0
    /\ pidx = 0
    /\ page_voters = <<>>
    /\ origins = <<>>
    /\ blocks = <<>>
    /\ ppc = "start"

\* lines 317-322: no line is left, the empty list is returned
PageEmpty ==
    /\ ppc = "start"
    /\ page_lines(page) = <<>>
    /\ ppc' = "done"
    /\ UNCHANGED <<page, lines, start_idx, pidx, page_voters, origins, blocks>>
    /\ PageFrame

\* lines 318-331
FindStart ==
    /\ ppc = "start"
    /\ page_lines(page) # <<>>
    /\ lines' = page_lines(page)
    /\ start_idx' = find_start(page_lines(page))
    /\ pidx' = find_start(page_lines(page))
    /\ ppc' = "loop"
    /\ UNCHANGED <<page, page_voters, origins, blocks>>
    /\ PageFrame

\* lines 333-360: the line at i bears identifiers and starts a block
PageBlock ==
    /\ ppc = "loop"
    /\ pidx < Len(lines)
    /\ voter_ids_in(At(lines, pidx)) # <<>>
    /\ LET parsed == parse_block_at(lines, pidx)
       IN  /\ page_voters' = page_voters \o parsed
           /\ origins' = origins \o [k \in 1..Len(parsed) |-> pidx]
    /\ blocks' = Append(blocks, [start |-> pidx,
                                 stop |-> block_end(lines, pidx + 1),
                                 members |-> block_members(lines, pidx)])
    /\ pidx' = block_end(lines, pidx + 1)
    /\ UNCHANGED <<page, lines, start_idx, ppc>>
    /\ PageFrame

\* lines 361-362
PageSkip ==
    /\ ppc = "loop"
    /\ pidx < Len(lines)
    /\ voter_ids_in(At(lines, pidx)) = <<>>
    /\ pidx' = pidx + 1
    /\ UNCHANGED <<page, lines, start_idx, page_voters, origins, blocks, ppc>>
    /\ PageFrame

\* line 364
PageReturn ==
    /\ ppc = "loop"
    /\ pidx >= Len(lines)
    /\ ppc' = "done"
    /\ UNCHANGED <<page, lines, start_idx, pidx, page_voters, origins, blocks>>
    /\ PageFrame

PageNext ==
    \/ PageEmpty
    \/ FindStart
    \/ PageBlock
    \/ PageSkip
    \/ PageReturn

(***************************************************************************)
(* deduplicate, lines 531-542, and the per-PDF loop of main, lines         *)
(* 598-627.  A record is kept to the fields the loop can tell records      *)
(* apart by: voter_id (None when the key is missing), name_ml and          *)
(* pdf_source.  add_transliterations (line 626) fills name_en and          *)
(* relative_name_en in place and changes neither the list nor these fields.*)
(***************************************************************************)
\* Python's truth value of a voter_id: neither None nor the empty string
truthy(vid) == vid # None /\ vid # Some("")

\* a variant of deduplicate that keeps the last record of every voter_id
deduplicate_keep_last(vs) ==
    LET kept == {p \in 1..Len(vs) :
                    ~truthy(vs[p].voter_id)
                    \/ \A q \in (p + 1)..Len(vs) : vs[q].voter_id # vs[p].voter_id}
        pick[p \in 0..Len(vs)] ==
            IF p = 0 THEN <<>>
            ELSE IF p \in kept THEN Append(pick[p - 1], vs[p]) ELSE pick[p - 1]
    IN  pick[Len(vs)]

RECURSIVE dedup_from(_, _, _)
\* lines 535-541: the loop over voters, with the set seen and the list unique
dedup_from(vs, seen, unique) ==
    IF vs = <<>> THEN unique
    ELSE LET v == Head(vs)
             vid == v.voter_id
         IN  IF truthy(vid) /\ vid \in seen
             THEN dedup_from(Tail(vs), seen, unique)
             ELSE dedup_from(Tail(vs),
                             IF truthy(vid) THEN seen \cup {vid} ELSE seen,
                             Append(unique, v))

\* deduplicate as a function of its argument
deduplicate(vs) == dedup_from(vs, {}, <<>>)

\* the names of the PDFs of the input folder
PdfNames == {"a.pdf", "b.pdf", "c.pdf"}

\* pdf_files: up to MaxPdfs PDFs, no name twice (lines 582-590)
PdfLists ==
    {fs \in SeqsUpTo(PdfNames, MaxPdfs) :
        \A p, q \in 1..Len(fs) : p # q => fs[p] # fs[q]}

\* what process_pdf can return for a PDF: up to MaxBatch records, each with
\* a non-empty voter_id (line 460) and the PDF's name (line 493)
BatchRecords(pdf) ==
    { [voter_id |-> Some("AB123456"), name_ml |-> "N1", pdf_source |-> pdf],
      [voter_id |-> Some("AB123456"), name_ml |-> "N2", pdf_source |-> pdf],
      [voter_id |-> Some("CD654321"), name_ml |-> "N1", pdf_source |-> pdf] }

Batches(pdf) == SeqsUpTo(BatchRecords(pdf), MaxBatch)

\* what an output file of an earlier run can hold: nothing, records with and
\* without a voter_id, the same voter_id twice
ResumedRecord(vid, name) == [voter_id |-> vid, name_ml |-> name, pdf_source |-> "a.pdf"]

ResumedCollections ==
    { <<>>,
      << ResumedRecord(Some("AB123456"), "N3") >>,
      << ResumedRecord(None, "N3"), ResumedRecord(None, "N3") >>,
      << ResumedRecord(Some(""), "N3"), ResumedRecord(Some("CD654321"), "N3"),
         ResumedRecord(Some(""), "N3") >>,
      << ResumedRecord(Some("CD654321"), "N3"), ResumedRecord(Some("CD654321"), "N4") >> }

\* pdfs_processed of that file
ResumedPdfs == { <<>>, <<"a.pdf">> }

MainIdle ==
    /\ pdf_files = <<>> /\ pdf_at = 0 /\ all_voters = <<>> /\ processed_pdfs = <<>>
    /\ extended = <<>> /\ saves = <<>> /\ mpc = "idle"

MainFrame == UNCHANGED <<wordVars, textVars, blockVars, pageVars>>

\* lines 576-590 and 598-599
MainInit ==
    /\ pdf_files \in PdfLists
    /\ pdf_at = 0
    /\ all_voters = <<>>
    /\ processed_pdfs = <<>>
    /\ extended = <<>>
    /\ saves = <<>>
    /\ mpc = "start"

\* lines 592-594
MainNoPdfs ==
    /\ mpc = "start"
    /\ pdf_files = <<>>
    /\ mpc' = "done"
    /\ UNCHANGED <<pdf_files, pdf_at, all_voters, processed_pdfs, extended, saves>>
    /\ MainFrame

\* line 602 is false, or the file cannot be read (lines 609-610)
MainFresh ==
    /\ mpc = "start"
    /\ pdf_files # <<>>
    /\ mpc' = "loop"
    /\ UNCHANGED <<pdf_files, pdf_at, all_voters, processed_pdfs, extended, saves>>
    /\ MainFrame

\* lines 602-608
MainResume ==
    /\ mpc = "start"
    /\ pdf_files # <<>>
    /\ \E vs \in ResumedCollections, ps \in ResumedPdfs :
          /\ all_voters' = vs
          /\ processed_pdfs' = ps
    /\ mpc' = "loop"
    /\ UNCHANGED <<pdf_files, pdf_at, extended, saves>>
    /\ MainFrame

\* lines 612-616
MainSkip ==
    /\ mpc = "loop"
    /\ pdf_at < Len(pdf_files)
    /\ Contains(processed_pdfs, <<At(pdf_files, pdf_at)>>)
    /\ pdf_at' = pdf_at + 1
    /\ UNCHANGED <<pdf_files, all_voters, processed_pdfs, extended, saves, mpc>>
    /\ MainFrame

\* lines 612-627
MainProcess ==
    /\ mpc = "loop"
    /\ pdf_at < Len(pdf_files)
    /\ ~Contains(processed_pdfs, <<At(pdf_files, pdf_at)>>)
    /\ \E voters_of_pdf \in Batches(At(pdf_files, pdf_at)) :
          /\ extended' = all_voters \o voters_of_pdf
          /\ all_voters' = deduplicate(all_voters \o voters_of_pdf)
          /\ saves' = Append(saves, deduplicate(all_voters \o voters_of_pdf))
    /\ processed_pdfs' = Append(processed_pdfs, At(pdf_files, pdf_at))
    /\ pdf_at' = pdf_at + 1
    /\ UNCHANGED <<pdf_files, mpc>>
    /\ MainFrame

\* lines 629-631
MainComplete ==
    /\ mpc = "loop"
    /\ pdf_at >= Len(pdf_files)
    /\ mpc' = "done"
    /\ UNCHANGED <<pdf_files, pdf_at, all_voters, processed_pdfs, extended, saves>>
    /\ MainFrame

MainNext ==
    \/ MainNoPdfs
    \/ MainFresh
    \/ MainResume
    \/ MainSkip
    \/ MainProcess
    \/ MainComplete

(***************************************************************************)
(* Properties of parse_voter_block, checked under SpecBlock.               *)
(***************************************************************************)
\* the indices of voter_ids whose identifier is not empty, in order: the
\* indices whose records are returned
kept_indices(ids) ==
    SelectSeq([k \in 1..Len(ids) |-> k - 1], LAMBDA k : At(ids, k) # "")

\* f applied to a present value
OptMap(f(_), o) == IF o = None THEN None ELSE Some(f(o[1]))

\* C1: the number of records returned is at most the number of identifiers
\* passed in, every returned record has a voter_id that is neither null nor
\* empty, and no identifier gives no record.
C1_RecordsWithinIdentifiers ==
    bpc = "done" =>
        /\ Len(voters) <= Len(voter_ids)
        /\ \A m \in 1..Len(voters) :
              voters[m].voter_id # None /\ voters[m].voter_id # Some("")
        /\ (voter_ids = <<>> => voters = <<>>)

\* C1 witness: a block with field lines parsed for two identifiers, one of
\* them empty, has returned one record
C1_Witness ==
    /\ bpc = "done"
    /\ block_text # <<>>
    /\ Len(voter_ids) = 2
    /\ Len(voters) = 1

\* C2: record assembly is positional.  The record of index k (the indices
\* with a non-empty identifier, in order) has the k-th identifier and the
\* k-th element of the columns names, rel_names, houses and ages, and null
\* for a column with no k-th element.
C2_PositionalAssembly ==
    bpc = "done" =>
        /\ Len(voters) = Len(kept_indices(voter_ids))
        /\ \A m \in 1..Len(voters) :
              LET k == kept_indices(voter_ids)[m]
                  v == voters[m]
              IN  /\ v.voter_id = Some(upper[At(voter_ids, k)])
                  /\ v.name_ml = IF k < Len(cols.names)
                                 THEN Some(clean_name(At(cols.names, k))) ELSE None
                  /\ v.relative_name_ml =
                        IF k < Len(cols.rel_names)
                        THEN Some(clean_relative(At(cols.rel_names, k))) ELSE None
                  /\ v.house_number = IF k < Len(cols.houses)
                                      THEN Some(At(cols.houses, k)) ELSE None
                  /\ v.age = IF k < Len(cols.ages) THEN At(cols.ages, k) ELSE None

\* C2 witness: three identifiers, two names and one house number: the third
\* record has no name, the second no house number, the first has both
C2_Witness ==
    /\ bpc = "done"
    /\ Len(voters) = 3
    /\ Len(cols.names) = 2
    /\ Len(cols.houses) = 1
    /\ voters[1].name_ml # None /\ voters[1].house_number # None
    /\ voters[2].name_ml # None /\ voters[2].house_number = None
    /\ voters[3].name_ml = None /\ voters[3].house_number = None

\* the value that follows occurrence k (from 0) of a label on an accumulator
\* line, None when the label occurs fewer times or nothing follows it
value_after(line, labels, k) ==
    LET parts == split_on(line, labels, <<>>, <<>>)
    IN  IF k + 2 <= Len(parts) /\ parts[k + 2] # <<>>
        THEN Some(parts[k + 2]) ELSE None

\* C3: column splitting never misaligns.  For the name, the relative's name,
\* the house number and the age, record k has the value that follows the
\* k-th occurrence of the column's label on the accumulator line, and null
\* when nothing follows it; a later occurrence's value is not moved up.
C3_ColumnsAligned ==
    bpc = "done" =>
        \A m \in 1..Len(voters) :
            LET k == kept_indices(voter_ids)[m]
                v == voters[m]
                age_part == value_after(age_gender_line, {AgeLabel}, k)
            IN  /\ v.name_ml = OptMap(clean_name, value_after(name_line, {NameLabel}, k))
                /\ v.relative_name_ml =
                      OptMap(clean_relative, value_after(relative_line, RelativeLabels, k))
                /\ v.house_number =
                      OptMap(clean_house, value_after(house_line, {HouseLabel}, k))
                /\ v.age = IF age_part = None THEN None ELSE age_of(age_part[1])

\* C4: the number n extracted from an age/gender segment is the record's age
\* when 18 <= n <= 120 and null otherwise, 0 included; no record has an age
\* outside 18..120.
C4_AgeWithinRange ==
    bpc = "done" =>
        /\ \A m \in 1..Len(voters) :
              voters[m].age # None => voters[m].age[1] \in 18..120
        /\ \A k \in 1..Len(cols.ages) :
              LET part == split_column(age_gender_line, {AgeLabel})[k]
                  n == int_of(age_match(part))
              IN  age_match(part) # <<>> =>
                      cols.ages[k] = IF n >= 18 /\ n <= 120 THEN Some(n) ELSE None

\* C5: every record has gender Male or Female: Female when its age/gender
\* segment has the feminine marker, Male otherwise, also when the block has
\* no age/gender segment for the record.
C5_GenderAlwaysSet ==
    bpc = "done" =>
        \A m \in 1..Len(voters) :
            LET k == kept_indices(voter_ids)[m]
                parts == split_column(age_gender_line, {AgeLabel})
            IN  voters[m].gender =
                    IF k < Len(parts) /\ HasToken(At(parts, k), {"STHREE"})
                    THEN Some("Female") ELSE Some("Male")

\* C13: every block line is appended to at most one of the four
\* accumulators, so together they hold no more tokens than the block, and a
\* line that bears an identifier, in capitals or in small letters, is
\* appended to none, so no accumulator holds an identifier.
C13_IdentifierLinesIgnored ==
    bpc \in {"classified", "split", "done"} =>
        /\ Len(name_line) + Len(relative_line) + Len(house_line)
              + Len(age_gender_line) <= Len(Flatten(block_text))
        /\ \A acc \in {name_line, relative_line, house_line, age_gender_line} :
              ~HasToken(acc, IdTokens)

(***************************************************************************)
(* Properties of transliterate_to_english, checked under SpecText.         *)
(***************************************************************************)
\* C6: for every key w of KNOWN_NAMES, transliterate_to_english(w) returns
\* KNOWN_NAMES[w], also for a key that holds a joiner character.
C6_KnownNamesPrecedence ==
    (tpc = "done" /\ round = 1) =>
        \A k \in 1..Len(KNOWN_NAMES) :
            first_in = KNOWN_NAMES[k][1] => text_ret = KNOWN_NAMES[k][2]

\* a non-empty text of ASCII letters, spaces, hyphens, slashes and periods
IsPlainText(s) ==
    /\ s # <<>>
    /\ \A k \in 1..Len(s) : IsCased(s[k]) \/ s[k] \in {32, 45, 47, 46}

\* s without its leading and its trailing spaces
TrimSpaces(s) ==
    LET inked == {k \in 1..Len(s) : s[k] # 32}
    IN  IF inked = {} THEN <<>>
        ELSE SubSeq(s, CHOOSE k \in inked : \A h \in inked : k <= h,
                       CHOOSE k \in inked : \A h \in inked : k >= h)

\* C9 as the specification states it: a non-empty text of ASCII letters,
\* spaces, hyphens, slashes and periods is returned unchanged, leading and
\* trailing spaces included.
C9_PlainTextUnchanged ==
    (tpc = "done" /\ round = 1 /\ IsPlainText(first_in)) => text_ret = first_in

\* C9 as the code has it: such a text is returned without its leading and
\* trailing spaces (the empty string when it is all spaces) and otherwise
\* unchanged, and a second application returns what the first returned.
C9_PlainTextTrimmed ==
    /\ (tpc = "done" /\ round = 1 /\ IsPlainText(first_in)) =>
            text_ret = TrimSpaces(first_in)
    /\ (tpc = "done" /\ round = 2 /\ IsPlainText(first_in)) =>
            text_ret = first_ret

\* C9 witness: a text with a leading space and something after it has gone
\* through both applications
C9_Witness ==
    /\ tpc = "done"
    /\ round = 2
    /\ IsPlainText(first_in)
    /\ Head(first_in) = 32
    /\ text_ret # <<>>
    /\ text_ret # first_in

(***************************************************************************)
(* Properties of transliterate_word, checked under SpecWord.               *)
(***************************************************************************)
\* a 3-character key of CONJUNCTS occurs in the word at index p
conjunct_occurs(w, p) ==
    /\ p + 2 < Len(w)
    /\ At(w, p + 1) = VIRAMA
    /\ conjunct_key(w, p) \in DOMAIN CONJUNCTS

\* C7: at every index where a 3-character key of CONJUNCTS occurs in the
\* word, the output has the key's CONJUNCTS mapping: the scan runs a
\* conjunct branch at that index and emits the mapping there, whatever
\* comes before the occurrence.
C7_ConjunctPriority ==
    wpc = "done" =>
        \A p \in 0..(Len(word) - 1) :
            conjunct_occurs(word, p) =>
                \E s \in 1..Len(scan) :
                    /\ scan[s].at = p
                    /\ scan[s].branch \in {"conjunct", "conjunct_matra"}
                    /\ SubSeq(scan[s].out, 1, Len(CONJUNCTS[conjunct_key(word, p)]))
                          = CONJUNCTS[conjunct_key(word, p)]

\* the index of the last consonant an iteration of the scan consumed
last_consonant(s) ==
    IF s.branch \in {"conjunct", "conjunct_matra"} THEN s.at + 2 ELSE s.at

\* C8: a consonant that is the word's last character and is in no conjunct
\* and no consonant-and-sign pair emits its consonant sound alone; a
\* consonant followed by virama has no 'a' after it in the output.
C8_NoInherentVowel ==
    wpc = "done" =>
        \A s \in 1..Len(scan) :
            /\ (scan[s].branch = "standalone" /\ scan[s].at = Len(word) - 1) =>
                    scan[s].out = CONSONANTS[At(word, scan[s].at)]
            /\ ( /\ scan[s].branch \in {"standalone", "virama_no_conjunct", "conjunct"}
                 /\ last_consonant(scan[s]) + 1 < Len(word)
                 /\ At(word, last_consonant(scan[s]) + 1) = VIRAMA ) =>
                    scan[s].out[Len(scan[s].out)] # INHERENT_A

\* what C11 asks of one step of the scan: an iteration moves the cursor by 1
\* to 4, every index an iteration has read is inside the word, and the
\* returned string is the word itself when nothing was produced and a
\* string as long as what was produced otherwise
C11_Step ==
    /\ (wpc = "scan" /\ wpc' = "scan") =>
            (i' - i \in 1..4 /\ Len(scan') = Len(scan) + 1)
    /\ \A s \in 1..Len(scan') :
            \A r \in scan'[s].reads : r >= 0 /\ r < Len(word')
    /\ wpc' = "done" =>
            /\ i' >= Len(word')
            /\ (Flatten(result') = <<>> => word_ret' = word')
            /\ (Flatten(result') # <<>> => Len(word_ret') = Len(Flatten(result')))

\* C11: transliterate_word is total.  Every iteration advances the cursor
\* by at least 1 and at most 4, no lookahead reads an index at or beyond
\* the word's length, and the scan ends with a string: the word itself when
\* the produced string is empty.
C11_Total == [][C11_Step]_vars /\ <>(wpc = "done")

\* C11 witness: a scan has ended whose last iteration matched a conjunct
\* with a vowel sign, read the sign three places ahead, and moved the cursor
\* by 4 onto the end of the word
C11_Witness ==
    /\ wpc = "done"
    /\ \E s \in 1..Len(scan) :
          /\ scan[s].branch = "conjunct_matra"
          /\ scan[s].at + 3 \in scan[s].reads
          /\ scan[s].at + 4 = Len(word)

\* the consonant cluster of a conjunct: its CONJUNCTS value without the
\* inherent 'a' at its end
consonant_cluster(key) ==
    LET v == CONJUNCTS[key]
    IN  IF v # <<>> /\ v[Len(v)] = INHERENT_A THEN SubSeq(v, 1, Len(v) - 1) ELSE v

\* C14: a matched conjunct before a vowel sign gives the consonant cluster
\* and the sign's sound with no inherent 'a' between them; before any other
\* character than a sign or virama it gives the cluster and one 'a'; at the
\* end of the word it gives the cluster and no vowel.
C14_ConjunctVowel ==
    wpc = "done" =>
        \A s \in 1..Len(scan) :
            LET p == scan[s].at
                cluster == consonant_cluster(conjunct_key(word, p))
            IN  /\ scan[s].branch = "conjunct_matra" =>
                      scan[s].out = cluster \o MATRAS[At(word, p + 3)]
                /\ (scan[s].branch = "conjunct" /\ p + 3 < Len(word)
                        /\ At(word, p + 3) # VIRAMA) =>
                      scan[s].out = cluster \o <<INHERENT_A>>
                /\ (scan[s].branch = "conjunct" /\ p + 3 = Len(word)) =>
                      scan[s].out = cluster

(***************************************************************************)
(* Properties of parse_ocr_text, checked under Spec.                       *)
(***************************************************************************)
\* the indices of the lines in which a number is followed by an identifier
\* in capitals
start_lines == {k \in 0..(Len(lines) - 1) : is_start_line(At(lines, k))}

first_start_line == CHOOSE k \in start_lines : \A h \in start_lines : k <= h

\* every record comes from a block that started at or after line k and holds
\* no line before k
records_from(k) ==
    /\ \A m \in 1..Len(origins) : origins[m] >= k
    /\ \A b \in 1..Len(blocks) :
          \A m \in 1..Len(blocks[b].members) : blocks[b].members[m] >= k

\* C10: records come only from lines at or after the first line in which a
\* serial number is followed by an identifier, and a page with no such line
\* gives no record.
C10_NoStartNoRecords ==
    ppc = "done" =>
        /\ start_lines # {} => records_from(first_start_line)
        /\ start_lines = {} => page_voters = <<>>

\* What the code does instead (C10): records come only from lines at or after
\* the first such line, and the result is the result for the page without
\* the lines before it; on a page with no such line the scan starts at the
\* first line, and the result is empty only when no line bears an
\* identifier.
RecordsFromStart ==
    ppc = "done" =>
        /\ start_lines # {} =>
              /\ records_from(first_start_line)
              /\ page_voters =
                    parse_from(SubSeq(lines, first_start_line + 1, Len(lines)), 0)
        /\ start_lines = {} =>
              (page_voters = <<>>
                  <=> \A k \in 0..(Len(lines) - 1) : voter_ids_in(At(lines, k)) = <<>>)

\* the lines after line s that end a block: a serial number before an
\* identifier, or a terminator word
block_enders(s) ==
    {j \in (s + 1)..(Len(lines) - 1) :
        is_block_start(At(lines, j)) \/ is_terminator(At(lines, j))}

\* the blocks that hold line k
blocks_holding(k) ==
    {b \in 1..Len(blocks) :
        \E m \in 1..Len(blocks[b].members) : blocks[b].members[m] = k}

\* what C12 asks of the blocks collected so far
C12_Blocks ==
    /\ \A b \in 1..Len(blocks) :
          LET s == blocks[b].start
              e == blocks[b].stop
              ms == blocks[b].members
          IN  /\ voter_ids_in(At(lines, s)) # <<>>
              /\ e > s
              /\ e = IF block_enders(s) = {} THEN Len(lines)
                     ELSE CHOOSE j \in block_enders(s) : \A h \in block_enders(s) : j <= h
              /\ ms = SelectSeq([m \in 1..(e - s) |-> s + m - 1],
                                LAMBDA k : k = s \/ ~is_photo(At(lines, k)))
              /\ (b < Len(blocks) => blocks[b + 1].start >= e)
              /\ (b = Len(blocks) => pidx >= e)
    /\ \A k \in 0..(Len(lines) - 1) : Cardinality(blocks_holding(k)) <= 1

\* the outer index grows with every turn of the loop, and after a block it
\* is the index of the line that ended the block
C12_Step ==
    (ppc = "loop" /\ ppc' = "loop") =>
        /\ pidx' > pidx
        /\ (Len(blocks') > Len(blocks) => pidx' = blocks'[Len(blocks')].stop)

\* C12: a block started at the identifier-bearing line i is line i and the
\* lines after it up to, and without, the first later line j that has a
\* serial number before an identifier or a terminator word; photo lines in
\* between are left out and end nothing; the scan goes on at j, so the
\* outer index grows, the ending line is in no earlier block and every line
\* is in at most one block.
C12_BlockExtent == []C12_Blocks /\ [][C12_Step]_vars

\* C12 witness: a page has been parsed on which a block of two lines or more
\* left a photo line out and was ended by a terminator line
C12_Witness ==
    /\ ppc = "done"
    /\ \E b \in 1..Len(blocks) :
          /\ Len(blocks[b].members) >= 2
          /\ Len(blocks[b].members) < blocks[b].stop - blocks[b].start
          /\ blocks[b].stop < Len(lines)
          /\ is_terminator(At(lines, blocks[b].stop))

(***************************************************************************)
(* Properties of deduplicate and of main's loop, checked under SpecMain.   *)
(***************************************************************************)
\* the positions of the records of vs that have no voter_id or whose
\* voter_id no earlier record has
first_positions(vs) ==
    {p \in 1..Len(vs) :
        ~truthy(vs[p].voter_id)
        \/ \A q \in 1..(p - 1) : vs[q].voter_id # vs[p].voter_id}

\* the records of vs at the positions P, in the order of vs
records_at(vs, P) ==
    LET pick[p \in 0..Len(vs)] ==
            IF p = 0 THEN <<>>
            ELSE IF p \in P THEN Append(pick[p - 1], vs[p]) ELSE pick[p - 1]
    IN  pick[Len(vs)]

\* C15: every collection passed to save_data has no two records with the
\* same non-empty voter_id, for any PDFs and with or without a resumed
\* collection; the collection is the extended list without the records
\* whose voter_id an earlier record has: the first record of every voter_id
\* is kept, the order of the kept records is that of the list, and no record
\* with a voter_id not seen before is dropped.
C15_SavedWithoutDuplicates ==
    /\ \A n \in 1..Len(saves) :
          \A p, q \in 1..Len(saves[n]) :
              (p # q /\ truthy(saves[n][p].voter_id)) =>
                  saves[n][p].voter_id # saves[n][q].voter_id
    /\ saves # <<>> =>
          /\ saves[Len(saves)] = records_at(extended, first_positions(extended))
          /\ all_voters = saves[Len(saves)]

\* C15 witness: after a resumed collection and two PDFs, the second save
\* dropped a record whose voter_id came earlier and kept a record with no
\* voter_id
C15_Witness ==
    /\ mpc = "done"
    /\ Len(saves) = 2
    /\ Len(saves[2]) < Len(extended)
    /\ \E p \in 1..Len(saves[2]) : ~truthy(saves[2][p].voter_id)
    /\ \E p \in 1..Len(saves[2]) : saves[2][p].pdf_source = At(pdf_files, 1)

(***************************************************************************)
(* Specifications: one per function under study.  Each starts the function *)
(* on an argument drawn from its input set and leaves the others idle.     *)
(***************************************************************************)
\* parse_ocr_text on a page
Init == PageInit /\ WordIdle /\ TextIdle /\ BlockIdle /\ MainIdle

Next == PageNext

Spec == Init /\ [][Next]_vars

\* transliterate_word on a word
InitWord == WordInit /\ TextIdle /\ BlockIdle /\ PageIdle /\ MainIdle

SpecWord == InitWord /\ [][WordNext]_vars

\* the same, with the loop always taking its next iteration
SpecWordLive == InitWord /\ [][WordNext]_vars /\ WF_vars(WordNext)

\* transliterate_to_english on a text
InitText == TextInit /\ WordIdle /\ BlockIdle /\ PageIdle /\ MainIdle

SpecText == InitText /\ [][TextNext]_vars

\* parse_voter_block on a block
InitBlock == BlockInit /\ WordIdle /\ TextIdle /\ PageIdle /\ MainIdle

SpecBlock == InitBlock /\ [][BlockNext]_vars

\* main's loop over the PDFs
InitMain == MainInit /\ WordIdle /\ TextIdle /\ BlockIdle /\ PageIdle

SpecMain == InitMain /\ [][MainNext]_vars

====
